---- MODULE Spec2Model ----
(***************************************************************************)
(* Model of streamdeck_ui/gui.py: the per-device display Dimmer, the       *)
(* dimmers registry, and the handle_keypress dispatcher with its macro     *)
(* executor.  Strings are sequences of one-character strings so that       *)
(* strip/replace/split/lower/startswith are computed as Python computes    *)
(* them.                                                                   *)
(***************************************************************************)
EXTENDS Integers, Sequences, FiniteSets, TLC

\* ------------------------------------------------------------------ bounds
\* Largest brightness level the main specification lets a device have.
MaxBright == 2
\* Largest 1-based page number a button's switch_page may name.
MaxPage == 2
\* Largest normal brightness a deck ramps down from in the idle specification.
MaxRamp == 4
\* Most key_pressed signals waiting for the event loop at one time.
MaxQueue == 2
\* Largest brightness change a button has bound in the clamp specification.
MaxDelta == 2

\* -------------------------------------------------------- program constants
\* dimmer_options["10 Seconds"]
TenSeconds == 10
\* interval of the ramp timer, __change_timer.start(10)
RampInterval == 10
\* api.change_brightness clamps the stored brightness to 0..100
MaxLevel == 100
\* default sleep of a bare "delay" token, 0.5 s, in milliseconds
DefaultDelayMs == 500

Decks == {"D1", "D2"}

\* The timeouts a device can be configured with (dimmer_options, of which
\* "Never" and "10 Seconds" are modelled).
DimmerOptions == {0, TenSeconds}

Levels == 0 .. MaxBright

\* ----------------------------------------------------------------- timers
\* A QTimer attribute of a Dimmer: None, or a single-shot timer object that
\* is active (pending) or not, started with an interval in milliseconds.
NoTimer == [exists |-> FALSE, active |-> FALSE, interval |-> 0]

StartedTimer(ms) == [exists |-> TRUE, active |-> TRUE, interval |-> ms]

\* QTimer.stop() behind "if self.__timer:" / "if self.__change_timer:"
StopTimer(t) == IF t.exists THEN [t EXCEPT !.active = FALSE] ELSE t

\* ------------------------------------------------------------------- log
\* What the handler that ran last did, in order: Dimmer method calls (with
\* the receiver's state at entry in "pre" and the return value in "r"),
\* brightness callbacks, timer starts/stops and the dispatcher's effects.
NoKey == [enum |-> FALSE, name |-> <<>>]

NoDimmer == [timeout |-> 0, brightness |-> -1, stopped |-> FALSE,
             dimmer_brightness |-> -1, timer |-> NoTimer, change_timer |-> NoTimer]

Ev(e, d, n, r) ==
    [e |-> e, d |-> d, n |-> n, r |-> r, k |-> NoKey, s |-> 0, i |-> 0, pre |-> NoDimmer]

Call(e, d, n, r, pre) == [Ev(e, d, n, r) EXCEPT !.pre = pre]

KeyEv(e, k, s, i, r) == [Ev(e, "-", 0, r) EXCEPT !.k = k, !.s = s, !.i = i]

\* ----------------------------------------------------------------- Dimmer
\* Dimmer.__init__ on top of the class attributes
Dimmer(timeout, brightness) ==
    [timeout |-> timeout, brightness |-> brightness, stopped |-> FALSE,
     dimmer_brightness |-> -1, timer |-> NoTimer, change_timer |-> NoTimer]

\* Each method maps a dimmer to [dm |-> the dimmer afterwards, log |-> what
\* it did, ret |-> its return value].

DimmerStop(dm, d) ==
    LET dm1 == [dm EXCEPT !.timer = StopTimer(@),
                          !.change_timer = StopTimer(@),
                          !.dimmer_brightness = dm.brightness,
                          !.stopped = TRUE]
    IN [dm |-> dm1,
        log |-> <<Call("stop", d, 0, FALSE, dm),
                  Ev("idle_stop", d, 0, dm.timer.active),
                  Ev("ramp_stop", d, 0, dm.change_timer.active),
                  Ev("callback", d, dm.brightness, TRUE)>>,
        ret |-> FALSE]

\* Mutant of DimmerReset: the restored level is shown but not remembered.
DimmerResetForgetsLevel(dm, d) ==
    LET t1 == StopTimer(dm.timer)
        t2 == IF dm.timeout # 0 THEN StartedTimer(dm.timeout * 1000) ELSE t1
        woke == dm.dimmer_brightness # dm.brightness
        dm1 == [dm EXCEPT !.stopped = FALSE, !.timer = t2,
                          !.change_timer = StopTimer(@)]
    IN [dm |-> dm1,
        log |-> <<Call("reset", d, 0, woke, dm),
                  Ev("idle_stop", d, 0, dm.timer.active),
                  Ev("ramp_stop", d, 0, dm.change_timer.active)>>
                \o (IF dm.timeout # 0
                    THEN <<Ev("idle_start", d, dm.timeout * 1000, TRUE)>> ELSE <<>>)
                \o (IF woke THEN <<Ev("callback", d, dm.brightness, TRUE)>> ELSE <<>>),
        ret |-> woke]

\* Mutant of DimmerReset: the wake test is dropped, reset always reports
\* "not dimmed" and never restores the brightness.
DimmerResetNoWake(dm, d) ==
    LET t1 == StopTimer(dm.timer)
        t2 == IF dm.timeout # 0 THEN StartedTimer(dm.timeout * 1000) ELSE t1
        dm1 == [dm EXCEPT !.stopped = FALSE, !.timer = t2,
                          !.change_timer = StopTimer(@)]
    IN [dm |-> dm1,
        log |-> <<Call("reset", d, 0, FALSE, dm),
                  Ev("idle_stop", d, 0, dm.timer.active),
                  Ev("ramp_stop", d, 0, dm.change_timer.active)>>
                \o (IF dm.timeout # 0
                    THEN <<Ev("idle_start", d, dm.timeout * 1000, TRUE)>> ELSE <<>>),
        ret |-> FALSE]

\* Mutant of DimmerReset: the in-flight ramp timer is not cancelled.
DimmerResetKeepsRamp(dm, d) ==
    LET t1 == StopTimer(dm.timer)
        t2 == IF dm.timeout # 0 THEN StartedTimer(dm.timeout * 1000) ELSE t1
        woke == dm.dimmer_brightness # dm.brightness
        dm1 == [dm EXCEPT !.stopped = FALSE, !.timer = t2,
                          !.dimmer_brightness = dm.brightness]
    IN [dm |-> dm1,
        log |-> <<Call("reset", d, 0, woke, dm),
                  Ev("idle_stop", d, 0, dm.timer.active)>>
                \o (IF dm.timeout # 0
                    THEN <<Ev("idle_start", d, dm.timeout * 1000, TRUE)>> ELSE <<>>)
                \o (IF woke THEN <<Ev("callback", d, dm.brightness, TRUE)>> ELSE <<>>),
        ret |-> woke]

DimmerReset(dm, d) ==
    LET t1 == StopTimer(dm.timer)
        t2 == IF dm.timeout # 0 THEN StartedTimer(dm.timeout * 1000) ELSE t1
        woke == dm.dimmer_brightness # dm.brightness
        dm1 == [dm EXCEPT !.stopped = FALSE, !.timer = t2,
                          !.change_timer = StopTimer(@),
                          !.dimmer_brightness = dm.brightness]
    IN [dm |-> dm1,
        log |-> <<Call("reset", d, 0, woke, dm),
                  Ev("idle_stop", d, 0, dm.timer.active),
                  Ev("ramp_stop", d, 0, dm.change_timer.active)>>
                \o (IF dm.timeout # 0
                    THEN <<Ev("idle_start", d, dm.timeout * 1000, TRUE)>> ELSE <<>>)
                \o (IF woke THEN <<Ev("callback", d, dm.brightness, TRUE)>> ELSE <<>>),
        ret |-> woke]

\* Mutant of DimmerChangeBrightness: the step is made without testing
\* whether the display is at 0 already.
DimmerChangeBrightnessNoFloor(dm, d) ==
    [dm |-> [dm EXCEPT !.dimmer_brightness = @ - 1,
                       !.change_timer = StartedTimer(RampInterval)],
     log |-> <<Call("change_brightness", d, 0, TRUE, dm),
               Ev("callback", d, dm.dimmer_brightness - 1, TRUE),
               Ev("ramp_start", d, RampInterval, TRUE)>>,
     ret |-> FALSE]

\* Mutant of DimmerChangeBrightness: the display is switched off in one
\* step instead of being ramped down.
DimmerChangeBrightnessJump(dm, d) ==
    IF dm.dimmer_brightness # 0
    THEN [dm |-> [dm EXCEPT !.dimmer_brightness = 0,
                            !.change_timer = StartedTimer(RampInterval)],
          log |-> <<Call("change_brightness", d, 0, TRUE, dm),
                    Ev("callback", d, 0, TRUE),
                    Ev("ramp_start", d, RampInterval, TRUE)>>,
          ret |-> FALSE]
    ELSE [dm |-> [dm EXCEPT !.change_timer = NoTimer],
          log |-> <<Call("change_brightness", d, 0, FALSE, dm)>>,
          ret |-> FALSE]

\* Mutant of DimmerChangeBrightness: the step is made but the next one is
\* not scheduled.
DimmerChangeBrightnessOnce(dm, d) ==
    IF dm.dimmer_brightness # 0
    THEN [dm |-> [dm EXCEPT !.dimmer_brightness = @ - 1],
          log |-> <<Call("change_brightness", d, 0, TRUE, dm),
                    Ev("callback", d, dm.dimmer_brightness - 1, TRUE)>>,
          ret |-> FALSE]
    ELSE [dm |-> [dm EXCEPT !.change_timer = NoTimer],
          log |-> <<Call("change_brightness", d, 0, FALSE, dm)>>,
          ret |-> FALSE]

\* Dimmer.change_brightness: one ramp step ("if self.__dimmer_brightness:" is
\* true of every nonzero value).
DimmerChangeBrightness(dm, d) ==
    IF dm.dimmer_brightness # 0
    THEN [dm |-> [dm EXCEPT !.dimmer_brightness = @ - 1,
                            !.change_timer = StartedTimer(RampInterval)],
          log |-> <<Call("change_brightness", d, 0, TRUE, dm),
                    Ev("callback", d, dm.dimmer_brightness - 1, TRUE),
                    Ev("ramp_start", d, RampInterval, TRUE)>>,
          ret |-> FALSE]
    ELSE [dm |-> [dm EXCEPT !.change_timer = NoTimer],
          log |-> <<Call("change_brightness", d, 0, FALSE, dm)>>,
          ret |-> FALSE]

\* Mutant of DimmerDim: the ramp is started whether or not the idle timer
\* is counting.
DimmerDimAlwaysRamps(dm, d, toggle) ==
    LET me == Call("dim", d, IF toggle THEN 1 ELSE 0, FALSE, dm)
    IN IF dm.stopped
       THEN [dm |-> dm, log |-> <<me>>, ret |-> FALSE]
       ELSE IF toggle /\ dm.dimmer_brightness = 0
       THEN LET r == DimmerReset(dm, d)
            IN [dm |-> r.dm, log |-> <<me>> \o r.log, ret |-> FALSE]
       ELSE LET dm1 == [dm EXCEPT !.timer = StopTimer(@)]
                stopEv == Ev("idle_stop", d, 0, dm.timer.active)
            IN IF ~dm.change_timer.exists /\ dm.dimmer_brightness # 0
               THEN LET c == DimmerChangeBrightness(dm1, d)
                    IN [dm |-> c.dm, log |-> <<me, stopEv>> \o c.log, ret |-> FALSE]
               ELSE [dm |-> dm1, log |-> <<me, stopEv>>, ret |-> FALSE]

\* Mutant of DimmerDim: the stopped check is missing.
DimmerDimIgnoresStopped(dm, d, toggle) ==
    IF toggle /\ dm.dimmer_brightness = 0
    THEN LET r == DimmerReset(dm, d)
         IN [r EXCEPT !.log = <<Call("dim", d, IF toggle THEN 1 ELSE 0, FALSE, dm)>> \o @]
    ELSE LET c == DimmerChangeBrightness([dm EXCEPT !.timer = StopTimer(@)], d)
         IN [c EXCEPT !.log = <<Call("dim", d, IF toggle THEN 1 ELSE 0, FALSE, dm)>> \o @]

\* Mutant of DimmerDim: a toggle at the floor starts nothing and restores
\* nothing (the wake-up branch is missing).
DimmerDimNoWake(dm, d, toggle) ==
    [dm |-> dm, log |-> <<Call("dim", d, IF toggle THEN 1 ELSE 0, FALSE, dm)>>,
     ret |-> FALSE]

DimmerDim(dm, d, toggle) ==
    LET me == Call("dim", d, IF toggle THEN 1 ELSE 0, FALSE, dm)
    IN IF dm.stopped
       THEN [dm |-> dm, log |-> <<me>>, ret |-> FALSE]
       ELSE IF toggle /\ dm.dimmer_brightness = 0
       THEN LET r == DimmerReset(dm, d)
            IN [dm |-> r.dm, log |-> <<me>> \o r.log, ret |-> FALSE]
       ELSE IF dm.timer.exists /\ dm.timer.active
       THEN LET dm1 == [dm EXCEPT !.timer = StopTimer(@)]
                stopEv == Ev("idle_stop", d, 0, TRUE)
            IN IF ~dm.change_timer.exists /\ dm.dimmer_brightness # 0
               THEN LET c == DimmerChangeBrightness(dm1, d)
                    IN [dm |-> c.dm, log |-> <<me, stopEv>> \o c.log, ret |-> FALSE]
               ELSE [dm |-> dm1, log |-> <<me, stopEv>>, ret |-> FALSE]
       ELSE [dm |-> dm, log |-> <<me>>, ret |-> FALSE]

\* ---------------------------------------------------------------- strings
\* A Python str is a sequence of one-character strings.
Whitespace == {" ", "\t", "\n"}

\* str.lower(), on the letters the modelled macros use
LowerChar(c) ==
    CASE c = "A" -> "a" [] c = "C" -> "c" [] c = "D" -> "d" [] c = "E" -> "e"
      [] c = "L" -> "l" [] c = "P" -> "p" [] c = "X" -> "x" [] c = "Y" -> "y"
      [] c = "Z" -> "z" [] OTHER -> c

Lower(str) == [i \in 1 .. Len(str) |-> LowerChar(str[i])]

\* str.startswith(prefix)
StartsWith(str, prefix) ==
    Len(str) >= Len(prefix) /\ SubSeq(str, 1, Len(prefix)) = prefix

\* str.strip(): leading and trailing whitespace removed
RECURSIVE LStrip(_)
LStrip(str) ==
    IF str # <<>> /\ Head(str) \in Whitespace THEN LStrip(Tail(str)) ELSE str

RECURSIVE RStrip(_)
RStrip(str) ==
    IF str # <<>> /\ str[Len(str)] \in Whitespace
    THEN RStrip(SubSeq(str, 1, Len(str) - 1)) ELSE str

Strip(str) == RStrip(LStrip(str))

\* str.replace(" ", ""): only the space character is removed
RemoveSpaces(str) == SelectSeq(str, LAMBDA c : c # " ")

\* str.split(sep) for a one-character separator: always at least one piece
RECURSIVE Split(_, _)
Split(str, sep) ==
    IF \A i \in 1 .. Len(str) : str[i] # sep
    THEN <<str>>
    ELSE LET j == CHOOSE i \in 1 .. Len(str) :
                      str[i] = sep /\ \A h \in 1 .. i - 1 : str[h] # sep
         IN <<SubSeq(str, 1, j - 1)>> \o Split(SubSeq(str, j + 1, Len(str)), sep)

RECURSIVE Concat(_)
Concat(seqs) == IF seqs = <<>> THEN <<>> ELSE Head(seqs) \o Concat(Tail(seqs))

\* ----------------------------------------------------------------- floats
\* float(text) for the texts the modelled macros can hold: an optional "-",
\* then digits with at most one ".", or inf / infinity / nan.  A value is
\* kept in milliseconds (three decimals).
Digits == {"0", "1", "2", "3", "4", "5", "6", "7", "8", "9"}

DigitVal(c) ==
    CASE c = "0" -> 0 [] c = "1" -> 1 [] c = "2" -> 2 [] c = "3" -> 3 [] c = "4" -> 4
      [] c = "5" -> 5 [] c = "6" -> 6 [] c = "7" -> 7 [] c = "8" -> 8 [] c = "9" -> 9

RECURSIVE NatOf(_)
NatOf(ds) ==
    IF ds = <<>> THEN 0
    ELSE NatOf(SubSeq(ds, 1, Len(ds) - 1)) * 10 + DigitVal(ds[Len(ds)])

NotAFloat == [ok |-> FALSE, special |-> "", neg |-> FALSE, ms |-> 0]

ParseFloat(text) ==
    LET neg == text # <<>> /\ Head(text) = "-"
        body == IF neg THEN Tail(text) ELSE text
        parts == Split(body, ".")
        int == parts[1]
        frac == IF Len(parts) = 2 THEN parts[2] ELSE <<>>
        allDigits(x) == \A i \in 1 .. Len(x) : x[i] \in Digits
    IN IF body \in {<<"i", "n", "f">>, <<"i", "n", "f", "i", "n", "i", "t", "y">>}
       THEN [ok |-> TRUE, special |-> "inf", neg |-> neg, ms |-> 0]
       ELSE IF body = <<"n", "a", "n">>
       THEN [ok |-> TRUE, special |-> "nan", neg |-> neg, ms |-> 0]
       ELSE IF Len(parts) <= 2 /\ allDigits(int) /\ allDigits(frac)
               /\ Len(int) + Len(frac) > 0
       THEN [ok |-> TRUE, special |-> "", neg |-> neg,
             ms |-> NatOf(int) * 1000
                    + NatOf(SubSeq(frac \o <<"0", "0", "0">>, 1, 3))]
       ELSE NotAFloat

\* truth value of a float ("if sleep_time:"): every value but zero
FloatTruthy(f) == f.special # "" \/ f.ms # 0

\* time.sleep(f) raises for a negative value, for nan and for inf
SleepRaises(f) == f.special # "" \/ (f.neg /\ f.ms # 0)

\* ----------------------------------------------------------- macro strings
\* _replace_special_keys
ReplaceSpecialKeys(key) ==
    IF Lower(key) = <<"p", "l", "u", "s">> THEN <<"+">>
    ELSE IF Lower(key) = <<"c", "o", "m", "m", "a">> THEN <<",">>
    ELSE IF StartsWith(Lower(key), <<"d", "e", "l", "a", "y">>) THEN Lower(key)
    ELSE key

\* Names of pynput's Key enum that the modelled macros use.
KeyNames == {<<"c", "t", "r", "l">>, <<"s", "h", "i", "f", "t">>}

\* getattr(Key, key_name.lower(), key_name): the enum member, or the string
KeyLookup(key_name) ==
    IF Lower(key_name) \in KeyNames
    THEN [enum |-> TRUE, name |-> Lower(key_name)]
    ELSE [enum |-> FALSE, name |-> key_name]

\* isinstance(key_name, str) and key_name.startswith("delay")
IsDelay(k) == ~k.enum /\ StartsWith(k.name, <<"d", "e", "l", "a", "y">>)

\* section_keys of one section
SectionKeys(section) ==
    LET names == Split(section, "+")
    IN [i \in 1 .. Len(names) |-> KeyLookup(ReplaceSpecialKeys(names[i]))]

\* keys.strip().replace(" ", "").split(",")
Sections(keys) == Split(RemoveSpaces(Strip(keys)), ",")

\* Mutant of PressOne: a bare "delay" gets no default; its empty suffix is
\* converted like any other and fails.
PressOneNoDefault(k, s, i, pressFail) ==
    IF IsDelay(k)
    THEN LET sleep_time_arg == SubSeq(k.name, 6, Len(k.name))
             f == ParseFloat(sleep_time_arg)
             sleep_time == IF f.ok THEN f ELSE [NotAFloat EXCEPT !.ok = TRUE]
             ms == IF sleep_time.neg THEN 0 - sleep_time.ms ELSE sleep_time.ms
         IN (IF ~f.ok
             THEN <<[KeyEv("convert_error", k, s, i, FALSE) EXCEPT !.n = 0]>> ELSE <<>>)
            \o (IF FloatTruthy(sleep_time)
                THEN <<[KeyEv("sleep", k, s, i, ~SleepRaises(sleep_time)) EXCEPT !.n = ms]>>
                ELSE <<>>)
    ELSE <<KeyEv("press", k, s, i, <<s, i>> \notin pressFail)>>

\* The first loop's body for key i of section s: a delay token sleeps, any
\* other key is pressed; pressFail holds the <<s, i>> whose press raises.
PressOne(k, s, i, pressFail) ==
    IF IsDelay(k)
    THEN LET sleep_time_arg == SubSeq(k.name, 6, Len(k.name))
             f == ParseFloat(sleep_time_arg)
             sleep_time ==
                 IF sleep_time_arg # <<>>
                 THEN (IF f.ok THEN f ELSE [NotAFloat EXCEPT !.ok = TRUE])
                 ELSE [ok |-> TRUE, special |-> "", neg |-> FALSE, ms |-> DefaultDelayMs]
             ms == IF sleep_time.neg THEN 0 - sleep_time.ms ELSE sleep_time.ms
         IN (IF sleep_time_arg # <<>> /\ ~f.ok
             THEN <<[KeyEv("convert_error", k, s, i, FALSE) EXCEPT !.n = 0]>> ELSE <<>>)
            \o (IF FloatTruthy(sleep_time)
                THEN <<[KeyEv("sleep", k, s, i, ~SleepRaises(sleep_time)) EXCEPT !.n = ms]>>
                ELSE <<>>)
    ELSE <<KeyEv("press", k, s, i, <<s, i>> \notin pressFail)>>

\* Mutant of ReleaseOne: the release loop does not skip delay tokens.
ReleaseOneAlsoDelays(k, s, i, releaseFail) ==
    <<KeyEv("release", k, s, i, <<s, i>> \notin releaseFail)>>

\* The second loop's body
ReleaseOne(k, s, i, releaseFail) ==
    IF ~IsDelay(k)
    THEN <<KeyEv("release", k, s, i, <<s, i>> \notin releaseFail)>>
    ELSE <<>>

\* Mutant of RunSection: a press that raises ends the press loop.
RunSectionAbortOnFail(section, s, pressFail, releaseFail) ==
    LET ks == SectionKeys(section)
        bad == {i \in 1 .. Len(ks) : ~IsDelay(ks[i]) /\ <<s, i>> \in pressFail}
        last == IF bad = {} THEN Len(ks)
                ELSE CHOOSE i \in bad : \A j \in bad : i <= j
    IN Concat([i \in 1 .. last |-> PressOne(ks[i], s, i, pressFail)])
       \o Concat([i \in 1 .. Len(ks) |-> ReleaseOne(ks[i], s, i, releaseFail)])

\* Mutant of RunSection: each key is released right after it is pressed.
RunSectionInterleaved(section, s, pressFail, releaseFail) ==
    LET ks == SectionKeys(section)
    IN Concat([i \in 1 .. Len(ks) |->
                  PressOne(ks[i], s, i, pressFail)
                  \o ReleaseOne(ks[i], s, i, releaseFail)])

\* One iteration of "for section in keys.split(',')": the press loop, then
\* the release loop
RunSection(section, s, pressFail, releaseFail) ==
    LET ks == SectionKeys(section)
    IN Concat([i \in 1 .. Len(ks) |-> PressOne(ks[i], s, i, pressFail)])
       \o Concat([i \in 1 .. Len(ks) |-> ReleaseOne(ks[i], s, i, releaseFail)])

\* The whole "if keys:" block
RunMacro(keys, pressFail, releaseFail) ==
    IF keys = <<>> THEN <<>>
    ELSE LET secs == Sections(keys)
         IN Concat([s \in 1 .. Len(secs) |->
                       RunSection(secs[s], s, pressFail, releaseFail)])

\* The <<section, index>> positions of a macro's keys (tokens that are
\* pressed and released)
Positions(keys) ==
    IF keys = <<>> THEN {}
    ELSE LET secs == Sections(keys)
         IN {p \in (1 .. Len(secs)) \X (1 .. Len(keys) + 1) :
                /\ p[2] <= Len(SectionKeys(secs[p[1]]))
                /\ ~IsDelay(SectionKeys(secs[p[1]])[p[2]])}

\* ------------------------------------------------------- config collaborator
\* api.change_brightness(deck_id, amount): the stored level plus the amount,
\* clamped to 0..100
ApiChangeBrightness(level, amount) ==
    IF level + amount > MaxLevel THEN MaxLevel
    ELSE IF level + amount < 0 THEN 0 ELSE level + amount

\* A button's bound actions as the api.get_button_* calls return them:
\* command and write are "bound or not", keys is the raw macro string,
\* brightness_change and switch_page are numbers (0: not bound).
NoButton ==
    [command |-> FALSE, keys |-> <<>>, write |-> FALSE, brightness_change |-> 0,
     switch_page |-> 0, target_device |-> "D1"]

\* Which external calls raise during one key event
NoFailure ==
    [spawn |-> FALSE, press |-> {}, release |-> {}, type |-> FALSE, brightness |-> FALSE]

\* ------------------------------------------------------------ handle_keypress
\* The handler's result: the registry, the stored pages and brightness
\* levels afterwards, and the log of what it did.
Outcome(dms, pg, br, lg) == [dimmers |-> dms, page |-> pg, brightness |-> br, log |-> lg]

\* "if command:" block
CommandStep(btn, f) ==
    IF btn.command THEN <<Ev("spawn", "-", 0, ~f.spawn)>> ELSE <<>>

\* "if write:" block
WriteStep(btn, f) ==
    IF btn.write THEN <<Ev("type", "-", 0, ~f.type)>> ELSE <<>>

\* Mutant of BrightnessStep: the dimmer is reset but not given the new
\* level.
BrightnessStepStaleDimmer(o, deck_id, btn, f) ==
    IF btn.brightness_change = 0 THEN o
    ELSE IF f.brightness
    THEN [o EXCEPT !.log = @ \o <<Ev("api_change_brightness", deck_id,
                                     btn.brightness_change, FALSE)>>]
    ELSE LET level == ApiChangeBrightness(o.brightness[deck_id], btn.brightness_change)
             r == DimmerReset(o.dimmers[deck_id], deck_id)
         IN Outcome([o.dimmers EXCEPT ![deck_id] = r.dm], o.page,
                    [o.brightness EXCEPT ![deck_id] = level],
                    o.log \o <<Ev("api_change_brightness", deck_id,
                                  btn.brightness_change, TRUE)>> \o r.log)

\* "if brightness_change:" block, from the outcome so far
BrightnessStep(o, deck_id, btn, f) ==
    IF btn.brightness_change = 0 THEN o
    ELSE IF f.brightness
    THEN [o EXCEPT !.log = @ \o <<Ev("api_change_brightness", deck_id,
                                     btn.brightness_change, FALSE)>>]
    ELSE LET level == ApiChangeBrightness(o.brightness[deck_id], btn.brightness_change)
             dm == [o.dimmers[deck_id] EXCEPT !.brightness = level]
             r == DimmerReset(dm, deck_id)
         IN Outcome([o.dimmers EXCEPT ![deck_id] = r.dm], o.page,
                    [o.brightness EXCEPT ![deck_id] = level],
                    o.log \o <<Ev("api_change_brightness", deck_id,
                                  btn.brightness_change, TRUE)>> \o r.log)

\* Mutant of PageStep: switching a deck's page counts as activity on that
\* deck and resets its dimmer.
PageStepWakesTarget(o, btn) ==
    IF btn.switch_page = 0 THEN o
    ELSE LET r == DimmerReset(o.dimmers[btn.target_device], btn.target_device)
         IN [o EXCEPT !.page[btn.target_device] = btn.switch_page - 1,
                      !.dimmers[btn.target_device] = r.dm,
                      !.log = @ \o <<Ev("set_page", btn.target_device,
                                        btn.switch_page - 1, TRUE)>> \o r.log]

\* Mutant of PageStep: the 1-based page number is stored as it is.
PageStepOneBased(o, btn) ==
    IF btn.switch_page = 0 THEN o
    ELSE [o EXCEPT !.page[btn.target_device] = btn.switch_page,
                   !.log = @ \o <<Ev("set_page", btn.target_device,
                                     btn.switch_page, TRUE)>>]

\* "if switch_page:" block
PageStep(o, btn) ==
    IF btn.switch_page = 0 THEN o
    ELSE [o EXCEPT !.page[btn.target_device] = btn.switch_page - 1,
                   !.log = @ \o <<Ev("set_page", btn.target_device,
                                     btn.switch_page - 1, TRUE)>>]

\* Mutant of Dispatch: no try/except, the first call that raises ends the
\* handler.
DispatchAbortOnFail(o, deck_id, btn, f) ==
    LET cmd == CommandStep(btn, f)
        mac == RunMacro(btn.keys, f.press, f.release)
        wr == WriteStep(btn, f)
        o1 == BrightnessStep([o EXCEPT !.log = @ \o cmd \o mac \o wr], deck_id, btn, f)
        whole == PageStep(o1, btn)
        bad == {i \in 1 .. Len(whole.log) :
                   whole.log[i].e \in {"spawn", "press", "release", "type",
                                       "api_change_brightness"}
                   /\ ~whole.log[i].r}
    IN IF bad = {} THEN whole
       ELSE [o EXCEPT !.log =
                SubSeq(whole.log, 1, CHOOSE i \in bad : \A j \in bad : i <= j)]

\* Mutant of Dispatch: the page switch runs first.
DispatchPageFirst(o, deck_id, btn, f) ==
    LET o1 == PageStep(o, btn)
        o2 == [o1 EXCEPT !.log = @ \o CommandStep(btn, f)
                                   \o RunMacro(btn.keys, f.press, f.release)
                                   \o WriteStep(btn, f)]
    IN BrightnessStep(o2, deck_id, btn, f)

\* Lines 223-296: the steps after the wake test, in the order of the code
Dispatch(o, deck_id, btn, f) ==
    LET o1 == [o EXCEPT !.log = @ \o CommandStep(btn, f)
                                  \o RunMacro(btn.keys, f.press, f.release)
                                  \o WriteStep(btn, f)]
    IN PageStep(BrightnessStep(o1, deck_id, btn, f), btn)

\* Mutant of HandleKeypress: the state argument is not tested, a key-up is
\* handled like a key-down.
HandleKeypressAnyState(dms, pg, br, deck_id, state, btn, f) ==
    LET r == DimmerReset(dms[deck_id], deck_id)
        o == Outcome([dms EXCEPT ![deck_id] = r.dm], pg, br, r.log)
    IN IF r.ret THEN o ELSE Dispatch(o, deck_id, btn, f)

\* Mutant of HandleKeypress: the result of the first reset() is ignored.
HandleKeypressNoWakeTest(dms, pg, br, deck_id, state, btn, f) ==
    IF ~state THEN Outcome(dms, pg, br, <<>>)
    ELSE LET r == DimmerReset(dms[deck_id], deck_id)
         IN Dispatch(Outcome([dms EXCEPT ![deck_id] = r.dm], pg, br, r.log),
                     deck_id, btn, f)

HandleKeypress(dms, pg, br, deck_id, state, btn, f) ==
    IF ~state THEN Outcome(dms, pg, br, <<>>)
    ELSE LET r == DimmerReset(dms[deck_id], deck_id)
             o == Outcome([dms EXCEPT ![deck_id] = r.dm], pg, br, r.log)
         IN IF r.ret THEN o ELSE Dispatch(o, deck_id, btn, f)

\* ------------------------------------------------------------------ state
VARIABLES
    dimmers,      \* the module-level dict: deck id -> Dimmer
    api_page,     \* the config store's active page of each deck (0-based)
    api_brightness,   \* the config store's brightness of each deck
    api_timeout,  \* the config store's display timeout of each deck
    settings,     \* the deck whose settings dialog is open, or "none"
    event,        \* the key event the last handler was given, if it was one
    log,          \* what the handler that ran last did
    queue,        \* key_pressed signals emitted and not yet delivered
    connected     \* the decks that are plugged in

vars ==
    <<dimmers, api_page, api_brightness, api_timeout, settings, event, log, queue,
      connected>>

\* "The last handler was not handle_keypress"
NoEvent == [d |-> "-", state |-> FALSE, btn |-> NoButton, f |-> NoFailure, ramping |-> FALSE]

\* The order in which start() and dim_all_displays() walk the decks
DeckOrder == <<"D1", "D2">>

Pages == 0 .. MaxPage - 1

\* Before start(): nothing is registered; the config store holds each deck's
\* persisted page, brightness and timeout.  (The selected deck starts at any
\* level; the other deck, whose level no modelled handler changes, at the
\* highest.)
Init ==
    /\ dimmers = [d \in {} |-> NoDimmer]
    /\ api_page = [d \in Decks |-> 0]
    /\ api_brightness \in [Decks -> Levels]
    /\ \A d \in Decks \ {"D1"} : api_brightness[d] = MaxBright
    /\ api_timeout \in [Decks -> DimmerOptions]
    /\ settings = "none"
    /\ event = NoEvent
    /\ log = <<>>
    /\ queue = <<>>
    /\ connected = Decks

\* start(), lines 817-832: every deck that api.open_decks() returns (there
\* is at least one) gets a Dimmer, reset at once
Start ==
    /\ event' = NoEvent
    /\ DOMAIN dimmers = {}
    /\ connected # {}
    /\ LET made == [d \in connected |->
                       DimmerReset(Dimmer(api_timeout[d], api_brightness[d]), d)]
           opened == SelectSeq(DeckOrder, LAMBDA d : d \in connected)
       IN /\ dimmers' = [d \in connected |-> made[d].dm]
          /\ log' = Concat([i \in 1 .. Len(opened) |-> made[opened[i]].log])
    /\ UNCHANGED <<api_page, api_brightness, api_timeout, settings, queue, connected>>

\* The failures that can happen to a button's bound actions
Failures(btn) ==
    [spawn : IF btn.command THEN BOOLEAN ELSE {FALSE},
     press : SUBSET Positions(btn.keys),
     release : SUBSET Positions(btn.keys),
     type : IF btn.write THEN BOOLEAN ELSE {FALSE},
     brightness : IF btn.brightness_change # 0 THEN BOOLEAN ELSE {FALSE}]

\* handle_keypress runs for a key event of deck d; ramping tells whether a
\* ramp tick of d was pending when the signal was emitted
HandleEvent(d, state, btn, f, ramping) ==
    /\ d \in DOMAIN dimmers
    /\ LET o == HandleKeypress(dimmers, api_page, api_brightness, d, state, btn, f)
       IN /\ dimmers' = o.dimmers
          /\ api_page' = o.page
          /\ api_brightness' = o.brightness
          /\ log' = <<Ev("handle_keypress", d, IF state THEN 1 ELSE 0, TRUE)>> \o o.log
    /\ event' = [d |-> d, state |-> state, btn |-> btn, f |-> f, ramping |-> ramping]
    /\ UNCHANGED <<api_timeout, settings, connected>>

\* A key event of deck d delivered to handle_keypress as soon as it is
\* emitted
KeyEvent(d, state, btn, f) ==
    HandleEvent(d, state, btn, f, FALSE) /\ UNCHANGED queue

\* The idle timer of d fires: __timer.timeout -> change_brightness
IdleTimeout(d) ==
    /\ event' = NoEvent
    /\ d \in DOMAIN dimmers
    /\ dimmers[d].timer.active
    /\ LET fired == [dimmers[d] EXCEPT !.timer.active = FALSE]
           c == DimmerChangeBrightness(fired, d)
       IN /\ dimmers' = [dimmers EXCEPT ![d] = c.dm]
          /\ log' = <<Ev("idle_timeout", d, 0, TRUE)>> \o c.log
    /\ UNCHANGED <<api_page, api_brightness, api_timeout, settings, queue, connected>>

\* The ramp timer of d fires: __change_timer.timeout -> change_brightness
RampTick(d) ==
    /\ event' = NoEvent
    /\ d \in DOMAIN dimmers
    /\ dimmers[d].change_timer.active
    /\ LET fired == [dimmers[d] EXCEPT !.change_timer.active = FALSE]
           c == DimmerChangeBrightness(fired, d)
       IN /\ dimmers' = [dimmers EXCEPT ![d] = c.dm]
          /\ log' = <<Ev("ramp_tick", d, 0, TRUE)>> \o c.log
    /\ UNCHANGED <<api_page, api_brightness, api_timeout, settings, queue, connected>>

\* dim_all_displays(): the tray's "Dim display (toggle)"
RECURSIVE DimEach(_, _)
DimEach(o, i) ==
    IF i > Len(DeckOrder) THEN o
    ELSE LET d == DeckOrder[i]
             r == DimmerDim(o.dimmers[d], d, TRUE)
         IN DimEach([o EXCEPT !.dimmers[d] = r.dm, !.log = @ \o r.log], i + 1)

DimAllDisplays ==
    /\ event' = NoEvent
    /\ DOMAIN dimmers = Decks
    /\ LET o == DimEach(Outcome(dimmers, api_page, api_brightness, <<>>), 1)
       IN /\ dimmers' = o.dimmers
          /\ log' = <<Ev("dim_all_displays", "-", 0, TRUE)>> \o o.log
    /\ UNCHANGED <<api_page, api_brightness, api_timeout, settings, queue, connected>>

\* A handler of the main window that only resets the selected deck's dimmer
UiReset(name, d) ==
    /\ event' = NoEvent
    /\ d \in DOMAIN dimmers
    /\ settings = "none"
    /\ LET r == DimmerReset(dimmers[d], d)
       IN /\ dimmers' = [dimmers EXCEPT ![d] = r.dm]
          /\ log' = <<Ev(name, d, 0, TRUE)>> \o r.log
    /\ UNCHANGED <<api_brightness, api_timeout, settings, queue, connected>>

\* DraggableButton.mouseMoveEvent with the left button down
MouseMoveEvent(d) == UiReset("mouseMoveEvent", d) /\ UNCHANGED api_page

\* button_clicked_action
ButtonClickedAction(d) == UiReset("button_clicked_action", d) /\ UNCHANGED api_page

\* change_page(ui, page)
ChangePage(d, p) == UiReset("change_page", d) /\ api_page' = [api_page EXCEPT ![d] = p]

\* show_settings up to settings.exec_(): the dimmer is stopped and the modal
\* dialog opens
ShowSettings(d) ==
    /\ event' = NoEvent
    /\ d \in DOMAIN dimmers
    /\ settings = "none"
    /\ LET r == DimmerStop(dimmers[d], d)
       IN /\ dimmers' = [dimmers EXCEPT ![d] = r.dm]
          /\ log' = <<Ev("show_settings", d, 0, TRUE)>> \o r.log
    /\ settings' = d
    /\ UNCHANGED <<api_page, api_brightness, api_timeout, queue, connected>>

\* The dialog's brightness slider moves: change_brightness(deck_id, value)
\* goes straight to the device
SettingsSlider(v) ==
    /\ event' = NoEvent
    /\ settings # "none"
    /\ log' = <<Ev("slider", settings, v, TRUE),
                Ev("change_brightness_direct", settings, v, TRUE)>>
    /\ UNCHANGED <<dimmers, api_page, api_brightness, api_timeout, settings, queue, connected>>

\* The dialog is accepted: the timeout is committed if its selection
\* changed, set_brightness stores the level and resets, then the final
\* reset() of show_settings
SettingsAccept(timeout, value) ==
    /\ event' = NoEvent
    /\ settings # "none"
    /\ LET d == settings
           dm1 == [dimmers[d] EXCEPT !.timeout = timeout, !.brightness = value]
           r1 == DimmerReset(dm1, d)
           r2 == DimmerReset(r1.dm, d)
       IN /\ dimmers' = [dimmers EXCEPT ![d] = r2.dm]
          /\ log' = <<Ev("settings_accept", d, value, TRUE)>> \o r1.log \o r2.log
          /\ api_timeout' = [api_timeout EXCEPT ![d] = timeout]
          /\ api_brightness' = [api_brightness EXCEPT ![d] = value]
    /\ settings' = "none"
    /\ UNCHANGED <<api_page, queue, connected>>

\* The dialog is cancelled: the device goes back to the stored level, then
\* the final reset()
SettingsCancel ==
    /\ event' = NoEvent
    /\ settings # "none"
    /\ LET d == settings
           r == DimmerReset(dimmers[d], d)
       IN /\ dimmers' = [dimmers EXCEPT ![d] = r.dm]
          /\ log' = <<Ev("settings_cancel", d, 0, TRUE),
                      Ev("change_brightness_direct", d, api_brightness[d], TRUE)>>
                    \o r.log
    /\ settings' = "none"
    /\ UNCHANGED <<api_page, api_brightness, api_timeout, queue, connected>>

\* ------------------------------------------------------------ specifications
\* The main specification follows the dimmers through the whole program.
\* The main window shows deck D1, so its handlers and the settings dialog
\* act on D1; D1's buttons have a brightness change bound or nothing; D2
\* receives plain key events.  Both decks' timers fire and the tray dims
\* every deck.
SelectedDeck == "D1"

ButtonsMain == {[NoButton EXCEPT !.brightness_change = c] : c \in {-1, 0, 1}}

\* The main specification keeps the stored brightness within Levels.
WithinLevels(d, btn) ==
    ApiChangeBrightness(api_brightness[d], btn.brightness_change) \in Levels

KeyUp == \E d \in Decks : KeyEvent(d, FALSE, NoButton, NoFailure)

KeyDownMain ==
    \/ \E btn \in ButtonsMain : \E f \in Failures(btn) :
          WithinLevels(SelectedDeck, btn) /\ KeyEvent(SelectedDeck, TRUE, btn, f)
    \/ \E d \in Decks \ {SelectedDeck} : KeyEvent(d, TRUE, NoButton, NoFailure)

Next ==
    \/ Start
    \/ KeyUp
    \/ KeyDownMain
    \/ \E d \in Decks : IdleTimeout(d)
    \/ \E d \in Decks : RampTick(d)
    \/ DimAllDisplays
    \/ MouseMoveEvent(SelectedDeck)
    \/ ButtonClickedAction(SelectedDeck)
    \/ \E p \in Pages : ChangePage(SelectedDeck, p)
    \/ ShowSettings(SelectedDeck)
    \/ \E v \in Levels : SettingsSlider(v)
    \/ \E t \in DimmerOptions, v \in Levels : SettingsAccept(t, v)
    \/ SettingsCancel

Spec == Init /\ [][Next]_vars

\* The dispatcher specification: key events of D1 with every combination of
\* bound actions and of failures, while D1's dimmer counts down and ramps so
\* that some events find the display dimmed.
ButtonsKeys ==
    {b \in [command : BOOLEAN, keys : {<<>>, <<"a">>}, write : BOOLEAN,
            brightness_change : {0, 1}, switch_page : {0, 1, MaxPage},
            target_device : Decks] :
        b.switch_page = 0 => b.target_device = "D1"}

InitKeys ==
    /\ Init
    /\ api_timeout = [d \in Decks |-> IF d = SelectedDeck THEN TenSeconds ELSE 0]

\* The dispatcher and macro specifications press one key at a time: a
\* key-down event does not directly follow another key-down event.  (No
\* handler reads the log, so this removes no behaviour of the program; it
\* only keeps the input combinations from being squared.)
KeyReleased ==
    IF log = <<>> THEN TRUE ELSE ~(log[1].e = "handle_keypress" /\ log[1].n = 1)

\* The release of a key that has every action bound
FullButton ==
    [command |-> TRUE, keys |-> <<"a">>, write |-> TRUE, brightness_change |-> 1,
     switch_page |-> MaxPage, target_device |-> "D2"]

KeyUpBound == KeyEvent(SelectedDeck, FALSE, FullButton, NoFailure)

KeyDownKeys ==
    /\ KeyReleased
    /\ \E btn \in ButtonsKeys : \E f \in Failures(btn) :
          WithinLevels(SelectedDeck, btn) /\ KeyEvent(SelectedDeck, TRUE, btn, f)

NextKeys ==
    \/ Start
    \/ KeyUp
    \/ KeyUpBound
    \/ KeyDownKeys
    \/ IdleTimeout(SelectedDeck)
    \/ RampTick(SelectedDeck)

SpecKeys == InitKeys /\ [][NextKeys]_vars

\* The macro specification: key events of D1 whose button has only a macro
\* bound, for a list of macro strings and every pattern of press and release
\* failures.
MacroList ==
    {
      <<"a">>,
      <<"c", "t", "r", "l", "+", "a">>,
      <<"a", ",", "b">>,
      <<"c", "t", "r", "l", "+", "s", "h", "i", "f", "t", "+", "a", ",", "d", "e", "l", "a", "y", "1", ".", "5", ",", "b">>,
      <<"d", "e", "l", "a", "y">>,
      <<"d", "e", "l", "a", "y", "X", "Y", "Z">>,
      <<"a", "+", "d", "e", "l", "a", "y", "1">>,
      <<"D", "e", "l", "a", "y", "1", "+", "a">>,
      <<"p", "l", "u", "s", "+", "c", "o", "m", "m", "a">>,
      <<" ", "a", " ", ",", " ", "B">>,
      <<"d", "e", "l", "a", "y", "0">>,
      <<"d", "e", "l", "a", "y", "-", "1">>,
      <<"d", "e", "l", "a", "y", "n", "a", "n">>,
      <<"a", "+", "a">>,
      <<",", "a">>,
      <<"d", "e", "l", "a", "y", "i", "n", "f">>,
      <<"d", "e", "l", "a", "y", "X", "Y", "Z", ",", "b">>
    }

\* Buttons with a macro only, and one whose macro is followed by text to
\* type and a page switch
ButtonsMacro ==
    {[NoButton EXCEPT !.keys = m] : m \in MacroList}
    \cup {[NoButton EXCEPT !.keys = <<"d", "e", "l", "a", "y", "X", "Y", "Z", ",", "b">>,
                           !.write = TRUE, !.switch_page = MaxPage]}

InitMacro ==
    /\ Init
    /\ api_timeout = [d \in Decks |-> 0]
    /\ api_brightness = [d \in Decks |-> MaxBright]

KeyDownMacro ==
    /\ KeyReleased
    /\ \E btn \in ButtonsMacro : \E f \in Failures(btn) :
          KeyEvent(SelectedDeck, TRUE, btn, f)

NextMacro ==
    \/ Start
    \/ KeyUp
    \/ KeyDownMacro

SpecMacro == InitMacro /\ [][NextMacro]_vars

\* The idle specification: every deck has a timeout and a nonzero normal
\* brightness, and after start() nothing calls reset, stop or dim any more
\* (key-up events still arrive).  The Qt event loop delivers the timeout of
\* every pending single-shot timer, hence the weak fairness of the two
\* timer actions.
InitIdle ==
    /\ dimmers = [d \in {} |-> NoDimmer]
    /\ api_page = [d \in Decks |-> 0]
    /\ api_brightness \in [Decks -> 1 .. MaxRamp]
    /\ api_timeout = [d \in Decks |-> TenSeconds]
    /\ settings = "none"
    /\ event = NoEvent
    /\ log = <<>>
    /\ queue = <<>>
    /\ connected = Decks

NextIdle ==
    \/ Start
    \/ KeyUp
    \/ \E d \in Decks : IdleTimeout(d)
    \/ \E d \in Decks : RampTick(d)

SpecIdle ==
    /\ InitIdle /\ [][NextIdle]_vars
    /\ \A d \in Decks : WF_vars(IdleTimeout(d)) /\ WF_vars(RampTick(d))

\* The event-loop specification: the capture thread emits key_pressed
\* whenever a key changes, the signal waits in the GUI thread's event queue,
\* and the event loop runs one handler at a time to completion: the slot
\* handle_keypress for the oldest waiting signal, or the timeout slot of a
\* pending timer.  A timer stopped by a handler that ran first does not
\* fire.
EmitKey(d, state) ==
    /\ d \in DOMAIN dimmers
    /\ Len(queue) < MaxQueue
    /\ queue' = Append(queue, [d |-> d, state |-> state,
                               ramping |-> dimmers[d].change_timer.active])
    /\ UNCHANGED <<dimmers, api_page, api_brightness, api_timeout, settings, event, log,
                   connected>>

DeliverKey ==
    /\ queue # <<>>
    /\ LET e == Head(queue)
       IN \E btn \in ButtonsMain : \E f \in Failures(btn) :
             /\ ~e.state => (btn = NoButton /\ f = NoFailure)
             /\ WithinLevels(e.d, btn)
             /\ HandleEvent(e.d, e.state, btn, f, e.ramping)
    /\ queue' = Tail(queue)

InitLoop ==
    /\ Init
    /\ api_timeout = [d \in Decks |-> TenSeconds]

NextLoop ==
    \/ Start
    \/ \E state \in BOOLEAN : EmitKey(SelectedDeck, state)
    \/ DeliverKey
    \/ IdleTimeout(SelectedDeck)
    \/ RampTick(SelectedDeck)

SpecLoop == InitLoop /\ [][NextLoop]_vars

\* The clamp specification: the selected deck's stored brightness starts at
\* either end of 0..100 and its keys change it by up to MaxDelta in either
\* direction, so that the clamp of api.change_brightness acts; the change
\* can fail; the deck's timers run.
ButtonsClamp ==
    {[NoButton EXCEPT !.brightness_change = c] : c \in (0 - MaxDelta .. MaxDelta) \ {0}}

InitClamp ==
    /\ dimmers = [d \in {} |-> NoDimmer]
    /\ api_page = [d \in Decks |-> 0]
    /\ api_brightness \in [Decks -> {0, 1, MaxLevel - 1, MaxLevel}]
    /\ \A d \in Decks \ {SelectedDeck} : api_brightness[d] = MaxLevel
    /\ api_timeout \in [Decks -> DimmerOptions]
    /\ \A d \in Decks \ {SelectedDeck} : api_timeout[d] = 0
    /\ settings = "none"
    /\ event = NoEvent
    /\ log = <<>>
    /\ queue = <<>>
    /\ connected = Decks

KeyDownClamp ==
    \E btn \in ButtonsClamp : \E f \in Failures(btn) :
        KeyEvent(SelectedDeck, TRUE, btn, f)

NextClamp ==
    \/ Start
    \/ KeyUp
    \/ KeyDownClamp
    \/ IdleTimeout(SelectedDeck)
    \/ RampTick(SelectedDeck)

SpecClamp == InitClamp /\ [][NextClamp]_vars

\* The plug specification: some decks are plugged in when the program
\* starts, and later a deck is unplugged.  gui.py has no handler for that
\* (sync() only calls api.ensure_decks_connected()), so unplugging changes
\* nothing in the program; an unplugged deck sends no key events, the QTimers
\* of its Dimmer go on.
Disconnect(d) ==
    /\ d \in connected
    /\ DOMAIN dimmers # {}
    /\ connected' = connected \ {d}
    /\ UNCHANGED <<dimmers, api_page, api_brightness, api_timeout, settings, event, log,
                   queue>>

InitPlug ==
    /\ dimmers = [d \in {} |-> NoDimmer]
    /\ api_page = [d \in Decks |-> 0]
    /\ api_brightness \in [Decks -> Levels]
    /\ api_timeout \in [Decks -> DimmerOptions]
    /\ settings = "none"
    /\ event = NoEvent
    /\ log = <<>>
    /\ queue = <<>>
    /\ connected \in SUBSET Decks

KeyPlug ==
    \E d \in connected, state \in BOOLEAN : KeyEvent(d, state, NoButton, NoFailure)

NextPlug ==
    \/ Start
    \/ \E d \in Decks : Disconnect(d)
    \/ KeyPlug
    \/ \E d \in Decks : IdleTimeout(d)
    \/ \E d \in Decks : RampTick(d)

SpecPlug == InitPlug /\ [][NextPlug]_vars

\* The two-deck specification: both decks count down and ramp, the keys of
\* the selected deck switch its own page or the other deck's, and the
\* settings dialog stops and restarts the selected deck's dimmer.
ButtonsFrame ==
    {NoButton}
    \cup {[NoButton EXCEPT !.switch_page = p, !.target_device = t] :
              p \in {1, MaxPage}, t \in Decks}

InitFrame ==
    /\ Init
    /\ api_timeout = [d \in Decks |-> TenSeconds]
    /\ api_brightness = [d \in Decks |-> MaxBright]

KeyDownFrame ==
    \E btn \in ButtonsFrame : KeyEvent(SelectedDeck, TRUE, btn, NoFailure)

NextFrame ==
    \/ Start
    \/ KeyUp
    \/ KeyDownFrame
    \/ \E d \in Decks : IdleTimeout(d)
    \/ \E d \in Decks : RampTick(d)
    \/ MouseMoveEvent(SelectedDeck)
    \/ ShowSettings(SelectedDeck)
    \/ SettingsCancel

SpecFrame == InitFrame /\ [][NextFrame]_vars

\* ----------------------------------------------------------- reading the log
LogIdx == 1 .. Len(log)

\* The last handler was handle_keypress for a key-down event
IsKeyDown == event.state

\* ... and its first reset() returned True (log[2] is that call)
Consumed == IsKeyDown /\ log[2].e = "reset" /\ log[2].r

NotConsumed == IsKeyDown /\ log[2].e = "reset" /\ ~log[2].r

\* The indices of the log's events of the given kinds
At(kinds) == {i \in LogIdx : log[i].e \in kinds}

DispatchKinds ==
    {"spawn", "press", "release", "sleep", "convert_error", "type",
     "api_change_brightness", "set_page"}

\* The events a reset() makes after its own call entry
ResetKinds == {"idle_stop", "ramp_stop", "idle_start", "callback"}

\* Calls of Dimmer methods
CallKinds == {"reset", "stop", "dim", "change_brightness"}

\* A button with all five actions bound
AllBound(btn) ==
    /\ btn.command /\ btn.keys # <<>> /\ btn.write
    /\ btn.brightness_change # 0 /\ btn.switch_page # 0

\* ------------------------------------------------------------------ claims
\* C1: a key-down event whose first reset() returns True is consumed as a
\* wake gesture: the handler makes that one reset() call and nothing else (no
\* spawn, press, release, sleep, typing, brightness change or page switch),
\* and the stored pages and brightness levels, the normal brightness and
\* every other deck's dimmer are as they were before the event.
C1_WakeLogOnlyReset ==
    Consumed =>
        /\ At(DispatchKinds) = {}
        /\ At(CallKinds) = {2}
        /\ \A i \in LogIdx : i > 2 => log[i].e \in ResetKinds /\ log[i].d = event.d
        /\ dimmers[event.d].brightness = log[2].pre.brightness

C1_WakeFrame ==
    Consumed' =>
        /\ api_page' = api_page
        /\ api_brightness' = api_brightness
        /\ api_timeout' = api_timeout
        /\ \A d \in Decks \ {event'.d} : dimmers'[d] = dimmers[d]
        /\ dimmers'[event'.d] =
              [dimmers[event'.d] EXCEPT !.dimmer_brightness = dimmers[event'.d].brightness,
                                        !.stopped = FALSE,
                                        !.timer = dimmers'[event'.d].timer,
                                        !.change_timer = StopTimer(@)]

\* C1: a key-down on a dimmed display only wakes it: the handler logs the
\* wake reset and nothing else, and leaves the page, the brightness setting
\* and every other dimmer unchanged.
C1_WakeConsumesEvent == [](C1_WakeLogOnlyReset) /\ [][C1_WakeFrame]_vars

\* C1 witness: a dimmed deck's key with all five actions bound was pressed
\* and the event was consumed.
C1_Witness == Consumed /\ AllBound(event.btn) /\ event.btn.target_device = "D2"

\* C2: in a key-down event that is not consumed, every bound step is
\* attempted whatever fails: one spawn if a command is bound, one press and
\* one release of the macro's key "a", one type if text is bound, one
\* brightness change if a delta is bound, one page switch if a page is bound,
\* and a step is attempted only if it is bound.
C2_EveryBoundStepAttempted ==
    NotConsumed =>
        /\ Cardinality(At({"spawn"})) = (IF event.btn.command THEN 1 ELSE 0)
        /\ Cardinality(At({"press"})) = (IF event.btn.keys = <<"a">> THEN 1 ELSE 0)
        /\ Cardinality(At({"release"})) = (IF event.btn.keys = <<"a">> THEN 1 ELSE 0)
        /\ Cardinality(At({"type"})) = (IF event.btn.write THEN 1 ELSE 0)
        /\ Cardinality(At({"api_change_brightness"}))
              = (IF event.btn.brightness_change # 0 THEN 1 ELSE 0)
        /\ Cardinality(At({"set_page"})) = (IF event.btn.switch_page # 0 THEN 1 ELSE 0)
        /\ \A i \in At({"spawn"}) : log[i].r = ~event.f.spawn
        /\ \A i \in At({"press"}) : log[i].r = (event.f.press = {})
        /\ \A i \in At({"release"}) : log[i].r = (event.f.release = {})
        /\ \A i \in At({"type"}) : log[i].r = ~event.f.type
        /\ \A i \in At({"api_change_brightness"}) : log[i].r = ~event.f.brightness
        /\ event.btn.switch_page # 0 =>
              api_page[event.btn.target_device] = event.btn.switch_page - 1

\* C2 witness: all five actions bound, and the spawn, the press, the
\* release, the typing and the brightness change all failed.
C2_Witness ==
    /\ NotConsumed /\ AllBound(event.btn)
    /\ event.f.spawn /\ event.f.press # {} /\ event.f.release # {}
    /\ event.f.type /\ event.f.brightness
    /\ At({"set_page"}) # {}

\* The dispatcher step an event of the log belongs to: 0 the wake test, 1 the
\* command, 2 the macro, 3 the text, 4 the brightness change with its dimmer
\* update and reset, 5 the page switch.
StepOf(i) ==
    IF log[i].e = "spawn" THEN 1
    ELSE IF log[i].e \in {"press", "release", "sleep", "convert_error"} THEN 2
    ELSE IF log[i].e = "type" THEN 3
    ELSE IF log[i].e = "api_change_brightness" THEN 4
    ELSE IF log[i].e = "set_page" THEN 5
    ELSE IF \E j \in At({"api_change_brightness"}) : j < i THEN 4
    ELSE 0

\* C5: in a key-down event that is not consumed the effects come in the
\* order command, macro, text, brightness change (the api call, then the
\* dimmer's reset with the new normal brightness), page switch.
C5_FixedStepOrder ==
    NotConsumed =>
        /\ \A i, j \in LogIdx : (1 < i /\ i < j) => StepOf(i) <= StepOf(j)
        /\ \A i \in At({"api_change_brightness"}) :
              log[i].r => /\ i + 1 \in At({"reset"})
                          /\ log[i + 1].pre.brightness = api_brightness[event.d]
                          /\ \A j \in At({"set_page"}) : j > i + 1
        /\ \A i \in At({"reset"}) : i = 2 \/ i - 1 \in At({"api_change_brightness"})

\* C5 witness: all five actions bound and successful, so that the log holds
\* an effect of every step (the brightness really changes, so the second
\* reset() calls back).
C5_Witness ==
    /\ NotConsumed /\ AllBound(event.btn) /\ event.f = NoFailure
    /\ {StepOf(i) : i \in LogIdx \ {1}} = 0 .. 5
    /\ \E i \in At({"callback"}) : StepOf(i) = 4

\* The number of keys (pressed and released tokens) in each section of the
\* macros of MacroList, counted by hand from the strings: a section is what
\* lies between commas, a key is a "+"-separated name that is no delay token
\* (the empty name before the comma of ",a" is a key too).
KeysPerSection(m) ==
    CASE m = <<"a">> -> <<1>>
      [] m = <<"c", "t", "r", "l", "+", "a">> -> <<2>>
      [] m = <<"a", ",", "b">> -> <<1, 1>>
      [] m = <<"c", "t", "r", "l", "+", "s", "h", "i", "f", "t", "+", "a", ",", "d", "e", "l", "a", "y", "1", ".", "5", ",", "b">> -> <<3, 0, 1>>
      [] m = <<"d", "e", "l", "a", "y">> -> <<0>>
      [] m = <<"d", "e", "l", "a", "y", "X", "Y", "Z">> -> <<0>>
      [] m = <<"a", "+", "d", "e", "l", "a", "y", "1">> -> <<1>>
      [] m = <<"D", "e", "l", "a", "y", "1", "+", "a">> -> <<1>>
      [] m = <<"p", "l", "u", "s", "+", "c", "o", "m", "m", "a">> -> <<2>>
      [] m = <<" ", "a", " ", ",", " ", "B">> -> <<1, 1>>
      [] m = <<"d", "e", "l", "a", "y", "0">> -> <<0>>
      [] m = <<"d", "e", "l", "a", "y", "-", "1">> -> <<0>>
      [] m = <<"d", "e", "l", "a", "y", "n", "a", "n">> -> <<0>>
      [] m = <<"a", "+", "a">> -> <<2>>
      [] m = <<",", "a">> -> <<1, 1>>
      [] m = <<"d", "e", "l", "a", "y", "i", "n", "f">> -> <<0>>
      [] m = <<"d", "e", "l", "a", "y", "X", "Y", "Z", ",", "b">> -> <<0, 1>>

\* The press and release events of section s
PressesOf(s) == {i \in At({"press"}) : log[i].s = s}

ReleasesOf(s) == {i \in At({"release"}) : log[i].s = s}

\* C3: whatever presses and releases fail, every key of every section gets
\* exactly one press attempt and exactly one release attempt: in each section
\* the releases are as many as the presses (and as many as the section has
\* keys), each key index occurs once among the presses and once among the
\* releases, and an attempt fails exactly where the injector fails.
C3_OnePressOneReleasePerKey ==
    (NotConsumed /\ event.btn.keys \in MacroList) =>
        LET n == KeysPerSection(event.btn.keys)
        IN /\ \A i \in At({"press", "release"}) : log[i].s \in 1 .. Len(n)
           /\ \A s \in 1 .. Len(n) :
                 /\ Cardinality(PressesOf(s)) = n[s]
                 /\ Cardinality(ReleasesOf(s)) = n[s]
                 /\ \A i \in PressesOf(s) :
                       /\ Cardinality({j \in PressesOf(s) : log[j].i = log[i].i}) = 1
                       /\ Cardinality({j \in ReleasesOf(s) : log[j].i = log[i].i
                                                          /\ log[j].k = log[i].k}) = 1
                       /\ log[i].r = (<<s, log[i].i>> \notin event.f.press)
                 /\ \A j \in ReleasesOf(s) :
                       log[j].r = (<<s, log[j].i>> \notin event.f.release)

\* C3 witness: the macro "ctrl+shift+a,delay1.5,b" ran with the press of ctrl
\* and the release of shift failing, and b was still pressed and released.
C3_Witness ==
    /\ NotConsumed
    /\ event.btn.keys = <<"c", "t", "r", "l", "+", "s", "h", "i", "f", "t", "+", "a", ",", "d", "e", "l", "a", "y", "1", ".", "5", ",", "b">>
    /\ event.f.press = {<<1, 1>>} /\ event.f.release = {<<1, 2>>}
    /\ \E i \in PressesOf(3) : log[i].r
    /\ \E i \in ReleasesOf(3) : log[i].r

\* The macro's events in the log
MacroIdx == At({"press", "release", "sleep", "convert_error"})

\* C4: sections run in the order of the macro string (events never go back
\* to an earlier section, so every release of a section precedes every press
\* and delay of the next); within a section every press precedes every
\* release; presses and releases each go in key order.  For the macro
\* "ctrl+shift+a,delay1.5,b" the events are exactly: press ctrl, shift, a;
\* release ctrl, shift, a; sleep 1.5 s; press b; release b.
C4_MacroOrder ==
    (NotConsumed /\ event.btn.keys \in MacroList) =>
        /\ \A i, j \in MacroIdx : i < j => log[i].s <= log[j].s
        /\ \A i \in At({"press"}), j \in At({"release"}) : log[i].s = log[j].s => i < j
        /\ \A i, j \in At({"press"}) :
              (log[i].s = log[j].s /\ log[i].i < log[j].i) => i < j
        /\ \A i, j \in At({"release"}) :
              (log[i].s = log[j].s /\ log[i].i < log[j].i) => i < j
        /\ event.btn.keys = <<"c", "t", "r", "l", "+", "s", "h", "i", "f", "t", "+", "a", ",", "d", "e", "l", "a", "y", "1", ".", "5", ",", "b">> =>
              LET ctrl == [enum |-> TRUE, name |-> <<"c", "t", "r", "l">>]
                  shift == [enum |-> TRUE, name |-> <<"s", "h", "i", "f", "t">>]
                  a == [enum |-> FALSE, name |-> <<"a">>]
                  b == [enum |-> FALSE, name |-> <<"b">>]
                  ran == SelectSeq(log, LAMBDA x : x.e \in {"press", "release", "sleep",
                                                            "convert_error"})
              IN [i \in 1 .. Len(ran) |-> <<ran[i].e, ran[i].k, ran[i].n>>]
                 = << <<"press", ctrl, 0>>, <<"press", shift, 0>>, <<"press", a, 0>>,
                      <<"release", ctrl, 0>>, <<"release", shift, 0>>, <<"release", a, 0>>,
                      <<"sleep", [enum |-> FALSE,
                                  name |-> <<"d", "e", "l", "a", "y", "1", ".", "5">>], 1500>>,
                      <<"press", b, 0>>, <<"release", b, 0>> >>

\* C4 witness: the three-section macro ran to its end.
C4_Witness ==
    /\ NotConsumed
    /\ event.btn.keys = <<"c", "t", "r", "l", "+", "s", "h", "i", "f", "t", "+", "a", ",", "d", "e", "l", "a", "y", "1", ".", "5", ",", "b">>
    /\ Cardinality(At({"press"})) = 4 /\ Cardinality(At({"release"})) = 4
    /\ Cardinality(At({"sleep"})) = 1

\* ------------------------------------------------------ claims on the Dimmer
\* What the Dimmer call at index i of the log did itself: the events after
\* it up to the next call or the next event of another kind.
SpanOf(i) ==
    {j \in LogIdx :
        /\ j > i
        /\ \A h \in i + 1 .. j :
              log[h].e \in ResetKinds \cup {"ramp_start"} /\ log[h].d = log[i].d}

\* The calls the last handler made on deck d's dimmer
CallsOn(d) == {i \in At(CallKinds) : log[i].d = d}

\* Call i is the last one the handler made on its deck, so the deck's dimmer
\* is now as that call left it
IsLastCall(i) == \A j \in CallsOn(log[i].d) : j <= i

\* C6: reset() returns True exactly when currentBrightness (pre.dimmer_brightness)
\* differs from normalBrightness (pre.brightness) at the call, and then calls
\* back once with normalBrightness; otherwise it returns False and makes no
\* callback.
C6_ResetReturnsWoke ==
    \A i \in At({"reset"}) :
        LET pre == log[i].pre
            cbs == {j \in SpanOf(i) : log[j].e = "callback"}
        IN /\ log[i].r = (pre.dimmer_brightness # pre.brightness)
           /\ Cardinality(cbs) = (IF pre.dimmer_brightness # pre.brightness THEN 1 ELSE 0)
           /\ \A j \in cbs : log[j].n = pre.brightness
           /\ IsLastCall(i) => dimmers[log[i].d].dimmer_brightness = pre.brightness

\* C6 witness: one handler made a reset() that returned False (the wake test
\* of a key-down event) and one that returned True (after the brightness
\* change).
C6_Witness ==
    /\ \E i \in At({"reset"}) : ~log[i].r /\ log[i].pre.timer.active
    /\ \E i \in At({"reset"}) : log[i].r /\ log[i].pre.dimmer_brightness >= 0

\* C7: after reset() the dimmer is not stopped, currentBrightness equals
\* normalBrightness, no ramp tick is pending, a pending idle timer or ramp
\* timer was stopped by the call, and the idle timer is pending exactly if
\* timeout > 0, started by this call with timeout * 1000 ms.
C7_AfterReset ==
    \A i \in At({"reset"}) :
        IsLastCall(i) =>
            LET dm == dimmers[log[i].d]
                pre == log[i].pre
                starts == {j \in SpanOf(i) : log[j].e = "idle_start"}
            IN /\ ~dm.stopped
               /\ dm.dimmer_brightness = dm.brightness
               /\ ~dm.change_timer.active
               /\ dm.timer.active <=> dm.timeout > 0
               /\ Cardinality(starts) = (IF dm.timeout > 0 THEN 1 ELSE 0)
               /\ \A j \in starts : /\ log[j].n = dm.timeout * 1000
                                    /\ dm.timer = StartedTimer(dm.timeout * 1000)
               /\ pre.timer.active =>
                     \E j \in SpanOf(i) : /\ log[j].e = "idle_stop" /\ log[j].r
                                          /\ \A h \in starts : j < h
               /\ pre.change_timer.active =>
                     \E j \in SpanOf(i) : log[j].e = "ramp_stop" /\ log[j].r

\* C7 witness: reset() interrupted a ramp (the ramp timer was pending and the
\* display was below its normal brightness) on a deck with a timeout.
C7_Witness ==
    \E i \in At({"reset"}) :
        /\ IsLastCall(i)
        /\ log[i].pre.change_timer.active
        /\ log[i].pre.dimmer_brightness < log[i].pre.brightness
        /\ log[i].pre.timeout > 0

\* C8: a stopped dimmer has no pending timer and shows its normal
\* brightness; dim() with either toggle value leaves it as it is and makes no
\* callback; and a stopped dimmer stays stopped until a reset() of it.
C8_StoppedIsQuiet ==
    \A d \in DOMAIN dimmers :
        dimmers[d].stopped =>
            /\ ~dimmers[d].timer.active
            /\ ~dimmers[d].change_timer.active
            /\ dimmers[d].dimmer_brightness = dimmers[d].brightness
            /\ \A toggle \in BOOLEAN :
                  LET r == DimmerDim(dimmers[d], d, toggle)
                  IN r.dm = dimmers[d] /\ Len(r.log) = 1 /\ r.log[1].e = "dim"

C8_DimCallOnStopped ==
    \A i \in At({"dim"}) :
        log[i].pre.stopped =>
            /\ SpanOf(i) = {}
            /\ IsLastCall(i)
            /\ dimmers[log[i].d] = log[i].pre

C8_StaysStopped ==
    \A d \in DOMAIN dimmers :
        (dimmers[d].stopped /\ ~dimmers'[d].stopped) =>
            \E i \in 1 .. Len(log') : log'[i].e = "reset" /\ log'[i].d = d

\* C8: a stopped dimmer has no running timer and shows its normal
\* brightness, dim() on it does nothing, and only reset() makes it leave the
\* stopped state.
C8_StoppedDimmer ==
    [](C8_StoppedIsQuiet /\ C8_DimCallOnStopped) /\ [][C8_StaysStopped]_vars

\* C8 witness: the tray's dim action ran while the settings dialog had the
\* selected deck's dimmer stopped, and the dimmer is still stopped.
C8_Witness ==
    /\ log # <<>> /\ log[1].e = "dim_all_displays"
    /\ dimmers[SelectedDeck].stopped
    /\ \E i \in At({"dim"}) : log[i].d = SelectedDeck /\ log[i].pre.stopped

\* C9 (as claimed): dim() on a dimmer that is not stopped, not a toggle at
\* the floor, with the idle timer pending, no ramp tick pending and a nonzero
\* currentBrightness cancels the idle timer and starts a ramp at once:
\* currentBrightness drops by 1 with a callback and the ramp timer is
\* started.
C9_DimStartsRamp ==
    \A i \in At({"dim"}) :
        LET pre == log[i].pre
            dm == dimmers[log[i].d]
        IN (/\ IsLastCall(i)
            /\ ~pre.stopped
            /\ ~(log[i].n = 1 /\ pre.dimmer_brightness = 0)
            /\ pre.timer.active
            /\ ~pre.change_timer.active
            /\ pre.dimmer_brightness # 0)
           => /\ ~dm.timer.active
              /\ dm.dimmer_brightness = pre.dimmer_brightness - 1
              /\ dm.change_timer.active
              /\ \E j \in LogIdx : /\ j > i /\ log[j].e = "callback"
                                   /\ log[j].d = log[i].d
                                   /\ log[j].n = pre.dimmer_brightness - 1

\* The events of deck d after index i
After(i, kind) == {j \in LogIdx : j > i /\ log[j].e = kind /\ log[j].d = log[i].d}

\* The dim(True) calls on a dimmer that is not stopped and is at the floor
FloorToggles ==
    {i \in At({"dim"}) :
        log[i].n = 1 /\ ~log[i].pre.stopped /\ log[i].pre.dimmer_brightness = 0}

\* C10 (as claimed): dim(toggle=True) at the floor calls back with
\* normalBrightness, sets currentBrightness to it, re-arms the idle timer
\* when timeout > 0 and starts no ramp.
C10_ToggleAtFloorCallsBack ==
    \A i \in FloorToggles :
        LET pre == log[i].pre
            dm == dimmers[log[i].d]
        IN /\ \E j \in After(i, "callback") : log[j].n = pre.brightness
           /\ dm.dimmer_brightness = pre.brightness
           /\ pre.timeout > 0 => dm.timer.active
           /\ After(i, "ramp_start") = {} /\ ~dm.change_timer.active

\* C10 (amended): dim(toggle=True) at the floor does what reset() does: it
\* calls back with normalBrightness exactly if normalBrightness is not 0
\* (at 0 the display already shows it and no callback is made), leaves
\* currentBrightness at normalBrightness, re-arms the idle timer when
\* timeout > 0 and starts no ramp.
C10_ToggleAtFloorResets ==
    \A i \in FloorToggles :
        LET pre == log[i].pre
            dm == dimmers[log[i].d]
        IN /\ IsLastCall(i + 1) /\ log[i + 1].e = "reset" /\ log[i + 1].pre = pre
           /\ Cardinality(After(i, "callback")) = (IF pre.brightness # 0 THEN 1 ELSE 0)
           /\ \A j \in After(i, "callback") : log[j].n = pre.brightness
           /\ log[i + 1].r = (pre.brightness # 0)
           /\ dm.dimmer_brightness = pre.brightness
           /\ dm.timer.active <=> pre.timeout > 0
           /\ After(i, "ramp_start") = {} /\ ~dm.change_timer.active
           /\ ~dm.stopped

\* C10 witness: the tray's toggle found a deck ramped down to 0 from a
\* nonzero normal brightness and woke it.
C10_Witness ==
    \E i \in FloorToggles :
        /\ log[i].pre.brightness > 0
        /\ \E j \in After(i, "callback") : log[j].n = log[i].pre.brightness
        /\ dimmers[log[i].d].timer.active

\* ------------------------------------------------- claims on the idle ramp
\* Deck d's dimmer as reset() leaves it when timeout > 0 and brightness > 0
Armed(d) ==
    /\ d \in DOMAIN dimmers
    /\ ~dimmers[d].stopped /\ dimmers[d].timer.active
    /\ dimmers[d].timeout > 0 /\ dimmers[d].brightness > 0
    /\ dimmers[d].dimmer_brightness = dimmers[d].brightness

\* The idle timer has fired and a ramp tick is pending
Ramping(d) ==
    d \in DOMAIN dimmers /\ dimmers[d].change_timer.active /\ ~dimmers[d].timer.active

Floor(d) == d \in DOMAIN dimmers /\ dimmers[d].dimmer_brightness = 0

\* No timer of d is pending
Quiet(d) ==
    d \in DOMAIN dimmers /\ ~dimmers[d].timer.active /\ ~dimmers[d].change_timer.active

\* The callbacks for deck d that the handler of this step made
CallbacksNext(d) == {i \in 1 .. Len(log') : log'[i].e = "callback" /\ log'[i].d = d}

\* A step changes currentBrightness of a deck only by lowering it by one,
\* with one callback of the new value.
RampOneStep ==
    \A d \in DOMAIN dimmers :
        dimmers'[d].dimmer_brightness # dimmers[d].dimmer_brightness =>
            /\ dimmers'[d].dimmer_brightness = dimmers[d].dimmer_brightness - 1
            /\ Cardinality(CallbacksNext(d)) = 1
            /\ \A i \in CallbacksNext(d) : log'[i].n = dimmers'[d].dimmer_brightness

\* Once currentBrightness is 0 it stays 0 and no callback is made.
FloorNoCallback ==
    \A d \in DOMAIN dimmers :
        Floor(d) => Floor(d)' /\ CallbacksNext(d) = {}

\* C11 (as claimed): after reset() with timeout > 0 and brightness > 0 and
\* no further call, the idle timer fires and starts a ramp, the ramp lowers
\* currentBrightness one step at a time down to 0, and from the moment it
\* is 0 no timer is pending and no callback is made.
C11_FloorHasNoTimer ==
    /\ \A d \in Decks : Armed(d) ~> Ramping(d)
    /\ \A d \in Decks : Armed(d) ~> Floor(d)
    /\ [][RampOneStep /\ FloorNoCallback]_vars
    /\ [](\A d \in Decks : Floor(d) => Quiet(d))

\* The last tick of a ramp: it finds currentBrightness 0, makes no callback
\* and clears the ramp timer.
LastTick ==
    \A d \in DOMAIN dimmers :
        (Floor(d) /\ dimmers'[d] # dimmers[d]) =>
            /\ dimmers[d].change_timer.active
            /\ dimmers'[d] = [dimmers[d] EXCEPT !.change_timer = NoTimer]

\* C11 (amended): as claimed, except that the tick that reaches 0 schedules
\* one more tick: at 0 the idle timer is not pending and no callback is made
\* any more, the one pending tick only clears the ramp timer, and after it
\* no timer is pending, for good.
C11_IdleRampsToFloor ==
    /\ \A d \in Decks : Armed(d) ~> Ramping(d)
    /\ \A d \in Decks : Armed(d) ~> (Floor(d) /\ Quiet(d))
    /\ [][RampOneStep /\ FloorNoCallback /\ LastTick]_vars
    /\ [](\A d \in Decks : Floor(d) => ~dimmers[d].timer.active)
    /\ \A d \in Decks : [](Floor(d) /\ Quiet(d) => [](Floor(d) /\ Quiet(d)))

\* C11 witness: a deck with normal brightness 2 or more has ramped all the
\* way down and its last tick has just cleared the ramp timer.
C11_Witness ==
    /\ log # <<>> /\ log[1].e = "ramp_tick"
    /\ \E d \in Decks :
          /\ log[1].d = d /\ Floor(d) /\ Quiet(d)
          /\ dimmers[d].brightness >= 2 /\ dimmers[d].change_timer = NoTimer

DelayWord == <<"d", "e", "l", "a", "y">>

\* The macro's segments (between commas) and a segment's tokens (between
\* plus signs), as text
SegmentsOf(m) == Sections(m)

TokensOf(m, s) == Split(SegmentsOf(m)[s], "+")

\* The macro events of section s, and those of its token i
EventsOf(s) == {j \in MacroIdx : log[j].s = s}

EventsAt(s, i) == {j \in EventsOf(s) : log[j].i = i}

\* A macro of MacroList ran
MacroRan == NotConsumed /\ event.btn.keys \in MacroList

SuffixOf(m, s, i) == SubSeq(TokensOf(m, s)[i], 6, Len(TokensOf(m, s)[i]))

\* The delay tokens of macro m
DelayTokens(m) ==
    {p \in (1 .. Len(SegmentsOf(m))) \X (1 .. Len(m)) :
        /\ p[2] <= Len(TokensOf(m, p[1]))
        /\ StartsWith(Lower(TokensOf(m, p[1])[p[2]]), DelayWord)}

\* A decimal number: an optional sign, digits, at most one point
IsDecimal(text) ==
    LET body == IF text # <<>> /\ Head(text) = "-" THEN Tail(text) ELSE text
    IN /\ \E j \in 1 .. Len(body) : body[j] \in Digits
       /\ \A j \in 1 .. Len(body) : body[j] \in Digits \cup {"."}
       /\ Cardinality({j \in 1 .. Len(body) : body[j] = "."}) <= 1

\* The sleeps and the conversion reports of the token at p
SleepsAt(p) == {j \in EventsAt(p[1], p[2]) : log[j].e = "sleep"}

ReportsAt(p) == {j \in EventsAt(p[1], p[2]) : log[j].e = "convert_error"}

\* The handler went on to the end: every key of the macro was pressed and
\* released, the text was typed and the page switched if bound
WentOn ==
    /\ \A s \in 1 .. Len(KeysPerSection(event.btn.keys)) :
          /\ Cardinality(PressesOf(s)) = KeysPerSection(event.btn.keys)[s]
          /\ Cardinality(ReleasesOf(s)) = KeysPerSection(event.btn.keys)[s]
    /\ event.btn.write => At({"type"}) # {}
    /\ event.btn.switch_page # 0 => At({"set_page"}) # {}

\* C14 (as claimed): a bare "delay" sleeps 0.5 s; a suffix that is no
\* number is reported and causes no sleep call; a numeric suffix sleeps
\* exactly its value (a sleep of 0 being no sleep); and the rest of the
\* macro and the later steps run.
C14_DelaySleepsItsValue ==
    MacroRan =>
        /\ WentOn
        /\ \A p \in DelayTokens(event.btn.keys) :
              LET suffix == SuffixOf(event.btn.keys, p[1], p[2])
              IN IF suffix = <<>>
                 THEN /\ Cardinality(SleepsAt(p)) = 1 /\ ReportsAt(p) = {}
                      /\ \A j \in SleepsAt(p) : log[j].n = DefaultDelayMs /\ log[j].r
                 ELSE IF IsDecimal(suffix)
                 THEN /\ ReportsAt(p) = {}
                      /\ \A j \in SleepsAt(p) : log[j].r
                 ELSE /\ Cardinality(ReportsAt(p)) = 1 /\ SleepsAt(p) = {}

\* What each macro of MacroList must sleep and report, worked out by hand
\* from the strings with Python's float() and time.sleep(): the sleep calls
\* in order as <<milliseconds, returned normally>>, and the number of
\* conversion reports.  float() accepts "-1", "nan" and "inf"; time.sleep()
\* raises for all three (0 stands for the value of nan and of inf).
SleepsOf(m) ==
    CASE m = <<"c", "t", "r", "l", "+", "s", "h", "i", "f", "t", "+", "a", ",", "d", "e", "l", "a", "y", "1", ".", "5", ",", "b">> -> << <<1500, TRUE>> >>
      [] m = <<"d", "e", "l", "a", "y">> -> << <<500, TRUE>> >>
      [] m = <<"a", "+", "d", "e", "l", "a", "y", "1">> -> << <<1000, TRUE>> >>
      [] m = <<"D", "e", "l", "a", "y", "1", "+", "a">> -> << <<1000, TRUE>> >>
      [] m = <<"d", "e", "l", "a", "y", "-", "1">> -> << <<0 - 1000, FALSE>> >>
      [] m = <<"d", "e", "l", "a", "y", "n", "a", "n">> -> << <<0, FALSE>> >>
      [] m = <<"d", "e", "l", "a", "y", "i", "n", "f">> -> << <<0, FALSE>> >>
      [] OTHER -> <<>>

ReportsOf(m) ==
    CASE m = <<"d", "e", "l", "a", "y", "X", "Y", "Z">> -> 1
      [] m = <<"d", "e", "l", "a", "y", "X", "Y", "Z", ",", "b">> -> 1
      [] OTHER -> 0

\* C14 (amended): a bare "delay" sleeps 0.5 s; a suffix float() rejects is
\* reported and causes no sleep call and no injector call; a suffix float()
\* accepts sleeps exactly its value when that is finite and positive, makes
\* no sleep call when it is 0, and when it is negative, nan or inf the
\* sleep call raises; in every case the rest of the macro and the later
\* steps run.
C14_DelaySleepsOrReports ==
    MacroRan =>
        LET slept == SelectSeq(log, LAMBDA x : x.e = "sleep")
        IN /\ WentOn
           /\ [j \in 1 .. Len(slept) |-> <<slept[j].n, slept[j].r>>] = SleepsOf(event.btn.keys)
           /\ Cardinality(At({"convert_error"})) = ReportsOf(event.btn.keys)
           /\ \A j \in At({"sleep", "convert_error"}) :
                 <<log[j].s, log[j].i>> \in DelayTokens(event.btn.keys)
           /\ \A p \in DelayTokens(event.btn.keys) :
                 /\ {j \in EventsAt(p[1], p[2]) : log[j].e \in {"press", "release"}} = {}
                 /\ ReportsAt(p) # {} => SleepsAt(p) = {}

\* C14 witness: "delayXYZ,b" ran on a button that also types and switches
\* the page: the suffix was reported, nothing slept, b was pressed and
\* released, the text typed and the page switched.
C14_Witness ==
    /\ MacroRan
    /\ event.btn.keys = <<"d", "e", "l", "a", "y", "X", "Y", "Z", ",", "b">>
    /\ event.btn.write /\ event.btn.switch_page # 0
    /\ At({"convert_error"}) # {} /\ At({"sleep"}) = {}
    /\ PressesOf(2) # {} /\ ReleasesOf(2) # {}
    /\ At({"type"}) # {} /\ At({"set_page"}) # {}

\* ------------------------------------------------ claims on the page switch
\* The pages after a key-down event that was not consumed: the target
\* deck's page is switch_page - 1 if a page is bound, every other page is
\* as before.
C15_PagesAfter ==
    NotConsumed' =>
        api_page' =
            IF event'.btn.switch_page # 0
            THEN [d \in Decks |-> IF d = event'.btn.target_device
                                  THEN event'.btn.switch_page - 1 ELSE api_page[d]]
            ELSE api_page

\* C15: a key-down event that is not consumed and has switch_page = n bound
\* for target deck T leaves T's active page at n - 1 and every other deck's
\* page (the source deck's too, when it is not T) as it was; with no
\* switch_page bound no page changes; whatever else is bound or fails.
C15_PageSwitch == [][C15_PagesAfter]_vars

\* C15 witness: a key of D1 switched D2 to the last page while D1 itself
\* stayed on its second page, which an earlier key had switched it to.
C15_Witness ==
    /\ NotConsumed /\ event.d = "D1"
    /\ event.btn.switch_page = MaxPage /\ event.btn.target_device = "D2"
    /\ api_page["D2"] = MaxPage - 1 /\ api_page["D1"] = 1
    /\ event.f.spawn /\ event.f.brightness

\* ----------------------------------------------------- claims on key-up
\* The last handler was handle_keypress for a key-up event
IsKeyUp == event.d \in Decks /\ ~event.state

C16_KeyUpFrame ==
    IsKeyUp' =>
        /\ dimmers' = dimmers
        /\ api_page' = api_page /\ api_brightness' = api_brightness
        /\ api_timeout' = api_timeout /\ settings' = settings

\* C16: a key-up event does nothing: the handler makes no call on a dimmer
\* and no callback, spawns, presses, releases, sleeps and types nothing and
\* changes no brightness and no page (its log holds its own entry only), and
\* every dimmer, with its timers, and the stored pages and levels are as
\* before.
C16_KeyUpNoOp == [](IsKeyUp => Len(log) = 1) /\ [][C16_KeyUpFrame]_vars

\* C16 witness: the key with every action bound was released while its
\* deck's display was ramping down, and the ramp goes on.
C16_Witness ==
    /\ IsKeyUp /\ AllBound(event.btn)
    /\ dimmers[event.d].change_timer.active
    /\ dimmers[event.d].dimmer_brightness < dimmers[event.d].brightness

\* ------------------------------------------- claims on the brightness step
\* The last handler was a key-down event that was not consumed and had a
\* brightness change bound
ChangedBrightness == NotConsumed /\ event.btn.brightness_change # 0

\* old + delta, clamped to 0..100
Clamped(old, delta) ==
    IF old + delta > 100 THEN 100 ELSE IF old + delta < 0 THEN 0 ELSE old + delta

\* The callbacks the second reset() made (those after the api call)
CallbacksAfterChange ==
    {j \in At({"callback"}) : \E h \in At({"api_change_brightness"}) : h < j}

\* What the claim says of a brightness change apart from the callback
C17_LevelsAfter ==
    ChangedBrightness' =>
        LET d == event'.d
            new == Clamped(api_brightness[d], event'.btn.brightness_change)
        IN IF ~event'.f.brightness
           THEN /\ api_brightness' = [api_brightness EXCEPT ![d] = new]
                /\ dimmers'[d].brightness = new
                /\ dimmers'[d].dimmer_brightness = new
                /\ dimmers'[d].timer.active <=> dimmers'[d].timeout > 0
                /\ dimmers'[d].timeout > 0 =>
                      \E j \in 1 .. Len(log') :
                         /\ log'[j].e = "idle_start" /\ log'[j].n = dimmers'[d].timeout * 1000
                         /\ \E h \in 1 .. j : log'[h].e = "api_change_brightness"
                /\ \A j \in CallbacksAfterChange' : log'[j].n = new
                /\ Cardinality(CallbacksAfterChange') <= 1
           ELSE /\ api_brightness' = api_brightness
                /\ dimmers'[d].brightness = dimmers[d].brightness
                /\ CallbacksAfterChange' = {}

\* C17 (as claimed): after a successful brightness change the stored level
\* is old + delta clamped to 0..100, normalBrightness and currentBrightness
\* equal it, the callback was invoked with it and the idle timer is re-armed
\* if timeout > 0; after a failed one normalBrightness is unchanged.
C17_ChangeCallsBack ==
    [][C17_LevelsAfter
       /\ ((ChangedBrightness' /\ ~event'.f.brightness) => CallbacksAfterChange' # {})]_vars

\* C17 (amended): the same, but the callback is invoked exactly when the
\* clamped level differs from the old one; when the clamp leaves the level
\* as it was (100 + 1, 0 - 1) no callback is made.
C17_ChangeCallsBackIfChanged ==
    [][C17_LevelsAfter
       /\ ((ChangedBrightness' /\ ~event'.f.brightness) =>
              (CallbacksAfterChange' # {}
                 <=> Clamped(api_brightness[event'.d], event'.btn.brightness_change)
                        # api_brightness[event'.d]))]_vars

\* C17 witness: at level 99 a key with +2 bound was pressed: the level is
\* 100, the dimmer shows it after a callback of 100, and its idle timer
\* runs.
C17_Witness ==
    /\ ChangedBrightness /\ ~event.f.brightness
    /\ event.btn.brightness_change = 2
    /\ log[2].pre.brightness = MaxLevel - 1
    /\ api_brightness[event.d] = MaxLevel
    /\ dimmers[event.d].dimmer_brightness = MaxLevel
    /\ \E j \in CallbacksAfterChange : log[j].n = MaxLevel
    /\ dimmers[event.d].timer.active

\* ------------------------------------------------ claims on the registry
\* C18 (as claimed): once the program has started the registry holds an
\* entry for exactly the plugged-in decks, every entry has been reset, and
\* no timer of an unplugged deck is pending, so that no idle expiry, ramp
\* tick or callback happens for it.
C18_RegistryFollowsDevices ==
    DOMAIN dimmers # {} =>
        /\ DOMAIN dimmers = connected
        /\ \A d \in DOMAIN dimmers : dimmers[d].dimmer_brightness # -1
        /\ \A d \in Decks \ connected :
              /\ d \in DOMAIN dimmers =>
                    ~dimmers[d].timer.active /\ ~dimmers[d].change_timer.active
              /\ \A i \in LogIdx : log[i].d # d

\* ------------------------------------------- claims on reaching the floor
\* The dimmer as the call at index i of the log left it: as the next call on
\* the same deck found it, or as it is now.  (A call made inside dim() counts
\* for itself.)
PostOf(i) ==
    LET later == {j \in CallsOn(log[i].d) : j > i}
    IN IF later = {} THEN dimmers[log[i].d]
       ELSE log[CHOOSE j \in later : \A h \in later : j <= h].pre

\* The calls that took currentBrightness to 0 from another level (the first
\* reset() of a new Dimmer, which finds no level yet, is not one of them)
ReachedFloor ==
    {i \in At(CallKinds) :
        PostOf(i).dimmer_brightness = 0 /\ log[i].pre.dimmer_brightness > 0}

\* Call i is a ramp step from 1 to 0 with one callback of 0
StepToFloor(i) ==
    /\ log[i].e = "change_brightness"
    /\ log[i].pre.dimmer_brightness = 1
    /\ Cardinality({j \in SpanOf(i) : log[j].e = "callback"}) = 1
    /\ \A j \in SpanOf(i) : log[j].e = "callback" => log[j].n = 0

\* Every ramp step lowers currentBrightness by exactly 1 with one callback
\* of the new value
StepsByOne ==
    \A i \in At({"change_brightness"}) :
        log[i].r =>
            /\ PostOf(i).dimmer_brightness = log[i].pre.dimmer_brightness - 1
            /\ Cardinality({j \in SpanOf(i) : log[j].e = "callback"}) = 1
            /\ \A j \in SpanOf(i) :
                  log[j].e = "callback" => log[j].n = log[i].pre.dimmer_brightness - 1

\* C19 (as claimed): currentBrightness gets to 0 only by a ramp step from 1;
\* no reset, stop or dim takes it to 0 from another value.
C19_FloorOnlyByRamp ==
    StepsByOne /\ \A i \in ReachedFloor : StepToFloor(i)

\* C19 (amended): currentBrightness gets to 0 only by a ramp step from 1,
\* or by a reset() of a dimmer whose normalBrightness is 0 (after a
\* brightness change or the settings dialog set it to 0), which sets it to 0
\* from any value.
C19_FloorByRampOrZeroNormal ==
    /\ StepsByOne
    /\ \A i \in ReachedFloor :
          \/ StepToFloor(i)
          \/ log[i].e = "reset" /\ log[i].pre.brightness = 0

\* C19 witness: a ramp tick took a display with normal brightness 2 from 1
\* to 0.
C19_Witness ==
    /\ log # <<>> /\ log[1].e = "ramp_tick"
    /\ \E i \in ReachedFloor :
          /\ StepToFloor(i)
          /\ log[i].pre.brightness = 2
          /\ dimmers[log[i].d].dimmer_brightness = 0

\* ------------------------------------------------- claims on the range
\* currentBrightness of dm is a level and not above normalBrightness
InRange(dm) ==
    dm.dimmer_brightness \in 0 .. MaxLevel /\ dm.dimmer_brightness <= dm.brightness

\* The states in which the last handler's calls found their dimmers
StatesAtCalls == {log[i].pre : i \in At(CallKinds)}

\* Every callback is made by a Dimmer method with a value in
\* 0..normalBrightness (normalBrightness as the method found it)
CallbacksInRange ==
    \A j \in At({"callback"}) :
        \E i \in At(CallKinds) :
            j \in SpanOf(i) /\ log[j].n \in 0 .. log[i].pre.brightness

\* C20 (as claimed): in every state a dimmer is in, from its construction
\* on, currentBrightness is in 0..100 and at most normalBrightness, and every
\* callback value is in 0..normalBrightness.
C20_AlwaysInRange ==
    /\ \A d \in DOMAIN dimmers : InRange(dimmers[d])
    /\ \A dm \in StatesAtCalls : InRange(dm)
    /\ CallbacksInRange

\* C20 (amended): that holds whenever no handler is running and the
\* dimmer's first reset() has run.  A new Dimmer has currentBrightness -1
\* until that reset(), and inside a handler that lowers normalBrightness
\* currentBrightness is above it until the reset() that follows; it is never
\* below 0 otherwise, and every callback value is in 0..normalBrightness.
C20_InRangeBetweenHandlers ==
    /\ \A d \in DOMAIN dimmers : InRange(dimmers[d])
    /\ CallbacksInRange
    /\ \A i \in At(CallKinds) :
          \/ InRange(log[i].pre)
          \/ /\ log[i].e = "reset"
             /\ \/ log[i].pre = Dimmer(log[i].pre.timeout, log[i].pre.brightness)
                \/ /\ log[i].pre.dimmer_brightness \in 0 .. MaxLevel
                   /\ log[i].pre.brightness < log[i].pre.dimmer_brightness

\* C20 witness: the idle timer's ramp step has just called back with a level
\* strictly between 0 and the normal brightness.
C20_Witness ==
    /\ log # <<>> /\ log[1].e = "idle_timeout"
    /\ \E j \in At({"callback"}) :
          /\ log[j].n > 0 /\ log[j].n < dimmers[log[j].d].brightness
          /\ dimmers[log[j].d].dimmer_brightness = log[j].n

\* ------------------------------------------- claims on the other decks
\* What a Dimmer method logs
DimmerKinds == CallKinds \cup ResetKinds \cup {"ramp_start"}

\* The handler of this step ran for one deck (log'[1] names it)
OneDeckHandler ==
    /\ DOMAIN dimmers # {}
    /\ log' # <<>>
    /\ log'[1].e # "dim_all_displays"
    /\ log'[1].d \in Decks

C21_OthersUntouched ==
    OneDeckHandler =>
        \A d \in Decks \ {log'[1].d} :
            /\ dimmers'[d] = dimmers[d]
            /\ \A i \in 1 .. Len(log') : log'[i].e \in DimmerKinds => log'[i].d # d

\* C21: a handler that runs for one deck (a key event, a timer of its
\* dimmer, a reset or stop of its dimmer) makes no call on any other deck's
\* dimmer and leaves it exactly as it was, also when the key switches the
\* other deck's page.
C21_OtherDimmersUnchanged == [][C21_OthersUntouched]_vars

\* C21 witness: a key of D1 switched D2 to its last page while D2's display
\* was ramping down, and D2 is still ramping, below its normal brightness.
C21_Witness ==
    /\ NotConsumed /\ event.d = "D1"
    /\ event.btn.switch_page = MaxPage /\ event.btn.target_device = "D2"
    /\ api_page["D2"] = MaxPage - 1
    /\ dimmers["D2"].change_timer.active
    /\ dimmers["D2"].dimmer_brightness < dimmers["D2"].brightness
    /\ dimmers["D2"].dimmer_brightness > 0

\* ------------------------------------------------ claims on the two timers
\* At most one of the two timers of dm is pending
OneTimer(dm) == ~(dm.timer.active /\ dm.change_timer.active)

\* The timer starts the last handler made, each with the call that made it
StartsIn(kind) ==
    {<<i, j>> \in At(CallKinds) \X At({kind}) : j \in SpanOf(i) /\ log[j].d = log[i].d}

\* C22: in every state of a dimmer, between handlers and at every call made
\* inside one, at most one of the idle timer and the ramp timer is pending;
\* a ramp tick is scheduled only by a call after which the idle timer is not
\* running, and the idle timer is armed only by a call after which no ramp
\* tick is pending.
C22_AtMostOneTimer ==
    /\ \A d \in DOMAIN dimmers : OneTimer(dimmers[d])
    /\ \A dm \in StatesAtCalls : OneTimer(dm)
    /\ \A p \in StartsIn("ramp_start") : ~PostOf(p[1]).timer.active
    /\ \A p \in StartsIn("idle_start") : ~PostOf(p[1]).change_timer.active

\* C22 witness: a reset() found a ramp in flight and armed the idle timer,
\* which is now the only timer pending.
C22_Witness ==
    \E p \in StartsIn("idle_start") :
        /\ log[p[1]].e = "reset" /\ IsLastCall(p[1])
        /\ log[p[1]].pre.change_timer.active
        /\ dimmers[log[p[1]].d].timer.active
        /\ ~dimmers[log[p[1]].d].change_timer.active

\* A dimmer that dims by itself: reset at least once, timeout set, not stopped
AutoDims(dm) == dm.dimmer_brightness # -1 /\ dm.timeout > 0 /\ ~dm.stopped

\* C23 (as claimed): a dimmer that has been reset at least once, with
\* timeout > 0 and not stopped, has its idle timer or its ramp timer pending
\* or is at brightness 0: the display is never lit with no timer pending.
C23_AutoDimNeverLost ==
    \A d \in DOMAIN dimmers :
        AutoDims(dimmers[d]) =>
            \/ dimmers[d].timer.active
            \/ dimmers[d].change_timer.active
            \/ dimmers[d].dimmer_brightness = 0

\* -------------------------------------------- claims on a newly opened deck
\* The dimmer start() makes for a deck: constructed with the persisted
\* timeout and the given brightness and reset once
Opened(d, brightness) == DimmerReset(Dimmer(api_timeout[d], brightness), d).dm

\* The dispatcher steps a button has bound, by the event each one logs
BoundKinds(btn) ==
    (IF btn.command THEN {"spawn"} ELSE {})
    \cup (IF btn.keys # <<>> THEN {"press", "release"} ELSE {})
    \cup (IF btn.write THEN {"type"} ELSE {})
    \cup (IF btn.brightness_change # 0 THEN {"api_change_brightness"} ELSE {})
    \cup (IF btn.switch_page # 0 THEN {"set_page"} ELSE {})

\* The dispatcher steps the last handler made
RanKinds == {log[i].e : i \in At(DispatchKinds)}

C24_KeyOnOpenedDeck ==
    (event'.state /\ dimmers[event'.d] = Opened(event'.d, api_brightness[event'.d])) =>
        /\ NotConsumed'
        /\ RanKinds' = BoundKinds(event'.btn)

\* C24: a key-down event that finds the deck's dimmer as start() left it
\* (constructed with the persisted timeout and brightness, reset once, the
\* idle timeout not yet elapsed) is not consumed: its reset() returns False
\* and the steps the button has bound, and only those, are run.
C24_FirstKeyNotConsumed == [][C24_KeyOnOpenedDeck]_vars

\* C24 witness: a key with all five actions bound was pressed on a deck
\* whose dimmer was as start() left it, with the idle timer counting, and all
\* five steps ran.
C24_Witness ==
    /\ IsKeyDown /\ AllBound(event.btn)
    /\ log[2].e = "reset" /\ log[2].pre = Opened(event.d, log[2].pre.brightness)
    /\ log[2].pre.timer.active /\ ~log[2].pre.change_timer.exists
    /\ RanKinds = BoundKinds(event.btn)

\* --------------------------------------------- claims on a disabled timeout
\* A dimmer at its normal brightness with no timer pending
AtNormal(dm) ==
    dm.dimmer_brightness = dm.brightness /\ ~dm.timer.active /\ ~dm.change_timer.active

\* What a Dimmer call returned leaves the dimmer at its normal brightness,
\* starts no ramp and calls back with no other level
KeepsNormal(r) ==
    /\ AtNormal(r.dm)
    /\ \A j \in 1 .. Len(r.log) :
          /\ r.log[j].e # "ramp_start"
          /\ r.log[j].e = "callback" => r.log[j].n = r.dm.brightness

\* The dim() calls the last handler made on a dimmer whose timeout is 0
DimsWithoutTimeout == {i \in At({"dim"}) : log[i].pre.timeout = 0}

\* C25: a dimmer whose timeout is 0 is at its normal brightness with no
\* timer pending whenever no handler is running; dim() with either toggle
\* value, reset() and stop() leave it so, start no ramp and call back with no
\* lower level; and every dim() call a handler makes on such a dimmer leaves
\* currentBrightness as it found it.
C25_NoTimeoutNoDim ==
    /\ \A d \in DOMAIN dimmers :
          dimmers[d].timeout = 0 =>
              /\ AtNormal(dimmers[d])
              /\ \A toggle \in BOOLEAN : KeepsNormal(DimmerDim(dimmers[d], d, toggle))
              /\ KeepsNormal(DimmerReset(dimmers[d], d))
              /\ KeepsNormal(DimmerStop(dimmers[d], d))
    /\ \A i \in DimsWithoutTimeout :
          /\ AtNormal(log[i].pre)
          /\ PostOf(i).dimmer_brightness = log[i].pre.dimmer_brightness
          /\ ~PostOf(i).change_timer.active
          /\ \A j \in LogIdx :
                (j > i /\ log[j].d = log[i].d) => log[j].e \notin {"ramp_start", "change_brightness"}

\* C25 witness: the tray's dim action ran on a lit deck whose timeout is 0
\* and that had ramped before the timeout was switched off (its ramp timer
\* object is still there); the display is still lit at its normal brightness.
C25_Witness ==
    \E i \in DimsWithoutTimeout :
        /\ ~log[i].pre.stopped
        /\ log[i].pre.change_timer.exists
        /\ log[i].pre.brightness > 0
        /\ dimmers[log[i].d].dimmer_brightness = log[i].pre.brightness
        /\ dimmers[log[i].d].timeout = 0

====
